---- MODULE Spec2Model ----
(***************************************************************************)
(* Placement solver of the Jump Space power grid optimizer.                *)
(*                                                                         *)
(* The repository holds four generations of the solver, all exporting      *)
(* solve(selectedPieces, gridState, gridSize):                             *)
(*   "priority"   src/js/solver.js:1-407     strict -> skip -> greedy      *)
(*   "mandatory"  src/js/solver.js:409-728   mandatory backtracking, then  *)
(*                                           greedy optional pieces        *)
(*   "strategies" src/unnamed/part_007:1-815 four re-ordered strategies    *)
(*   "permute"    src/unnamed/part_007:816-1177 requireAll / permutations  *)
(* The variable `version` selects the generation a behaviour runs.  The    *)
(* recursive searches are unfolded into an explicit call stack: one step   *)
(* per function entry, per loop iteration and per return.                  *)
(***************************************************************************)
EXTENDS Integers, Sequences, FiniteSets, TLC

\* ------------------------------------------------------------------------
\* Bounds of the model
\* ------------------------------------------------------------------------

\* side of the square grid handed to solve (grid.js uses 8)
GridSize == 3

\* longest instance list drawn from the catalog (scenario lists are longer)
MaxPieces == 2

\* iteration budget of one counted search; the sources use 50000
\* (solver.js:18) and 100000 (part_007:19), scaled here so that a search
\* over MaxPieces instances can run out of budget
MAX_BACKTRACK_ITERATIONS == 4

\* ------------------------------------------------------------------------
\* Program constants
\* ------------------------------------------------------------------------

MAX_PIECES_FOR_BACKTRACK == 8

StrictCandidateLimit == 20

SkipCandidateLimit == 15

\* ------------------------------------------------------------------------
\* Shape engine (components.js)
\* ------------------------------------------------------------------------

\* a shape is a sequence of rows, each a sequence of 0/1

\* the rotation, with the first cell of its result cleared
rotateShapeClearFirst(shape) ==
    LET rows == Len(shape)
        cols == Len(shape[1])
    IN  [col \in 1..cols |-> [k \in 1..rows |->
            IF col = 1 /\ k = 1 THEN 0 ELSE shape[rows - k + 1][col]]]

rotateShape(shape) ==
    LET rows == Len(shape)
        cols == Len(shape[1])
    IN  [col \in 1..cols |-> [k \in 1..rows |-> shape[rows - k + 1][col]]]

getAllRotations(shape) ==
    LET r1 == rotateShape(shape)
        r2 == rotateShape(r1)
        r3 == rotateShape(r2)
    IN  <<shape, r1, r2, r3>>

\* sequence of <<row, col>> in the order of the two nested loops
getOccupiedCells(shape, startRow, startCol) ==
    LET rows == Len(shape)
        cols == Len(shape[1])
        all  == [k \in 1..(rows * cols) |->
                    <<(k - 1) \div cols, (k - 1) % cols>>]
        fill == SelectSeq(all, LAMBDA rc : shape[rc[1] + 1][rc[2] + 1] = 1)
    IN  [k \in 1..Len(fill) |-> <<startRow + fill[k][1], startCol + fill[k][2]>>]

countCells(shape) ==
    Cardinality({rc \in (1..Len(shape)) \X (1..Len(shape[1])) :
                    shape[rc[1]][rc[2]] = 1})

Range(seq) == {seq[k] : k \in 1..Len(seq)}

\* ------------------------------------------------------------------------
\* Grid encodings
\* ------------------------------------------------------------------------

\* "priority" and "mandatory": 0 unpowered, 1 powered, 2 protected
\* "strategies" (game encoding): 0 powered, 1 protected, 4 blocked
\* "permute": booleans, TRUE powered
Versions == {"priority", "mandatory", "strategies", "permute"}

\* the power test with >= 0 where the code compares with the powered codes
isPoweredLoose(ver, value) ==
    CASE ver \in {"priority", "mandatory"} -> value >= 0
      [] ver = "strategies"                -> value >= 0
      [] OTHER                             -> value \in BOOLEAN

isPowered(ver, value) ==
    CASE ver \in {"priority", "mandatory"} -> value = 1 \/ value = 2
      [] ver = "strategies"                -> value = 0 \/ value = 1
      [] OTHER                             -> value = TRUE

\* the test of countProtectedCells and of the statistics loops
isProtectedValue(ver, value) ==
    CASE ver \in {"priority", "mandatory"} -> value = 2
      [] ver = "strategies"                -> value = 1
      [] OTHER                             -> FALSE

\* ------------------------------------------------------------------------
\* Feasibility and candidate enumeration
\* ------------------------------------------------------------------------

InGrid(cell, size) ==
    /\ cell[1] >= 0 /\ cell[1] < size
    /\ cell[2] >= 0 /\ cell[2] < size

\* canPlace without the occupiedCells.has(key) test
canPlaceNoOccupancy(ver, shape, startRow, startCol, grid, occupied, size) ==
    LET cells == getOccupiedCells(shape, startRow, startCol)
    IN  \A k \in 1..Len(cells) :
            /\ InGrid(cells[k], size)
            /\ isPowered(ver, grid[cells[k][1]][cells[k][2]])

\* canPlace without the test of the cell's power
canPlaceNoPowerTest(ver, shape, startRow, startCol, grid, occupied, size) ==
    LET cells == getOccupiedCells(shape, startRow, startCol)
    IN  \A k \in 1..Len(cells) :
            /\ InGrid(cells[k], size)
            /\ cells[k] \notin occupied

\* occupied is the Set of "row,col" keys; a key is modelled by the pair
canPlace(ver, shape, startRow, startCol, grid, occupied, size) ==
    LET cells == getOccupiedCells(shape, startRow, startCol)
    IN  \A k \in 1..Len(cells) :
            /\ InGrid(cells[k], size)
            /\ isPowered(ver, grid[cells[k][1]][cells[k][2]])
            /\ cells[k] \notin occupied

countProtectedCells(ver, shape, startRow, startCol, grid, size) ==
    LET cells == getOccupiedCells(shape, startRow, startCol)
    IN  Cardinality({k \in 1..Len(cells) :
            /\ InGrid(cells[k], size)
            /\ isProtectedValue(ver, grid[cells[k][1]][cells[k][2]])})

placePiece(shape, startRow, startCol, occupied) ==
    occupied \cup Range(getOccupiedCells(shape, startRow, startCol))

removePiece(placedKeys, occupied) ==
    occupied \ Range(placedKeys)

\* the origins scanned for one rotation, row by row
Origins(shape, size) ==
    LET nr == size - Len(shape) + 1
        nc == size - Len(shape[1]) + 1
    IN  IF nr <= 0 \/ nc <= 0 THEN <<>>
        ELSE [k \in 1..(nr * nc) |-> <<(k - 1) \div nc, (k - 1) % nc>>]

\* candidates of one rotation, in scan order
RotationPlacements(ver, shape, rotIdx, grid, occupied, size) ==
    LET orig == Origins(shape, size)
        ok   == SelectSeq(orig, LAMBDA rc :
                    canPlace(ver, shape, rc[1], rc[2], grid, occupied, size))
    IN  [k \in 1..Len(ok) |->
            [shape |-> shape, row |-> ok[k][1], col |-> ok[k][2],
             rotIdx |-> rotIdx,
             protectedCount |->
                 countProtectedCells(ver, shape, ok[k][1], ok[k][2], grid, size)]]

\* getValidPlacementsNoPriority: scan order, no sorting
getValidPlacementsNoPriority(ver, piece, grid, occupied, size) ==
    LET rot == getAllRotations(piece.shape)
    IN  RotationPlacements(ver, rot[1], 0, grid, occupied, size)
          \o RotationPlacements(ver, rot[2], 1, grid, occupied, size)
          \o RotationPlacements(ver, rot[3], 2, grid, occupied, size)
          \o RotationPlacements(ver, rot[4], 3, grid, occupied, size)

\* Array.prototype.sort is stable: candidates with equal protectedCount keep
\* their scan order.  Built as the buckets of each count, highest first.
RECURSIVE SortByProtected(_, _)
SortByProtected(seq, count) ==
    IF count < 0 THEN <<>>
    ELSE SelectSeq(seq, LAMBDA p : p.protectedCount = count)
           \o SortByProtected(seq, count - 1)

getValidPlacementsLeastProtected(ver, piece, grid, occupied, size) ==
    LET all == getValidPlacementsNoPriority(ver, piece, grid, occupied, size)
    IN  SelectSeq(all, LAMBDA p : p.protectedCount = 0)
          \o SelectSeq(all, LAMBDA p : p.protectedCount > 0)

\* the sort keeping candidates of equal count in reverse scan order
getValidPlacementsTiesReversed(ver, piece, grid, occupied, size) ==
    LET all == getValidPlacementsNoPriority(ver, piece, grid, occupied, size)
    IN  SortByProtected([k \in 1..Len(all) |-> all[Len(all) + 1 - k]],
                        countCells(piece.shape))

getValidPlacements(ver, piece, grid, occupied, size) ==
    SortByProtected(getValidPlacementsNoPriority(ver, piece, grid, occupied, size),
                    countCells(piece.shape))

slice(seq, n) ==
    IF Len(seq) <= n THEN seq ELSE SubSeq(seq, 1, n)

\* the record pushed on the placements list
MakePlacement(piece, cand) ==
    [pieceId    |-> piece.id,
     priorityId |-> piece.priorityId,
     shape      |-> cand.shape,
     row        |-> cand.row,
     col        |-> cand.col,
     rotation   |-> cand.rotIdx * 90,
     cells      |-> getOccupiedCells(cand.shape, cand.row, cand.col)]

\* ------------------------------------------------------------------------
\* Inputs of a solve call
\* ------------------------------------------------------------------------

Mono == <<<<1>>>>

Domino == <<<<1, 1>>>>

Ell == <<<<1, 0>>, <<1, 1>>>>

Bar == <<<<1, 1, 1, 1>>>>

\* the kinds of instance a list is drawn from: shape and the two flags the
\* callers attach (getSelectedComponentsFromPriority)
Kind(shape, mandatory, protect) ==
    [shape |-> shape, mandatory |-> mandatory, protect |-> protect]

Catalog(ver) ==
    IF ver = "mandatory"
    THEN {Kind(Mono, TRUE, FALSE), Kind(Mono, FALSE, TRUE),
          Kind(Domino, TRUE, FALSE), Kind(Ell, FALSE, FALSE),
          Kind(Bar, TRUE, FALSE)}
    ELSE {Kind(Mono, FALSE, TRUE), Kind(Domino, FALSE, FALSE),
          Kind(Ell, FALSE, FALSE), Kind(Bar, FALSE, FALSE)}

\* the caller numbers the instances (priorityIdCounter): ids are distinct and
\* priorityId = id
MakePieces(kinds) ==
    [k \in 1..Len(kinds) |->
        [id |-> k, priorityId |-> k, shape |-> kinds[k].shape,
         mandatory |-> kinds[k].mandatory, protect |-> kinds[k].protect]]

KindLists(ver) ==
    UNION {[1..n -> Catalog(ver)] : n \in 0..MaxPieces}

\* the cells whose state varies; every other cell of the grid is unpowered
WindowCells == {<<0, 0>>, <<0, 1>>, <<1, 0>>}

CellStates(ver) ==
    IF ver = "permute" THEN {"blocked", "powered"}
    ELSE {"blocked", "powered", "protected"}

Encode(ver, st) ==
    CASE ver \in {"priority", "mandatory"} ->
            (CASE st = "blocked" -> 0 [] st = "powered" -> 1 [] OTHER -> 2)
      [] ver = "strategies" ->
            (CASE st = "blocked" -> 4 [] st = "powered" -> 0 [] OTHER -> 1)
      [] OTHER -> (st # "blocked")

MakeGrid(ver, pattern, size) ==
    [r \in 0..(size - 1) |-> [c \in 0..(size - 1) |->
        Encode(ver, IF <<r, c>> \in DOMAIN pattern
                    THEN pattern[<<r, c>>] ELSE "blocked")]]

\* two longer lists, beyond MAX_PIECES_FOR_BACKTRACK:
\* nine mandatory single-cell instances on nine powered cells, and nine
\* instances of which six fit nowhere, on five powered cells
NineMonos == [k \in 1..9 |-> Kind(Mono, TRUE, FALSE)]

NineMixed ==
    [k \in 1..9 |-> CASE k <= 6 -> Kind(Bar, FALSE, FALSE)
                      [] k = 7  -> Kind(Ell, FALSE, FALSE)
                      [] OTHER  -> Kind(Domino, FALSE, FALSE)]

FullPattern == [rc \in (0..2) \X (0..2) |-> "powered"]

FivePattern ==
    [rc \in {<<0, 0>>, <<0, 1>>, <<0, 2>>, <<1, 1>>, <<1, 2>>} |-> "powered"]

\* five cells, the two of the last column Protected: the candidate scanned
\* first for the L covers no Protected cell, a later one covers both
ShieldedFive ==
    [rc \in {<<0, 0>>, <<1, 0>>, <<1, 1>>, <<1, 2>>, <<2, 2>>} |->
        IF rc[2] = 2 THEN "protected" ELSE "powered"]

\* two mandatory instances of which the first fits nowhere, and an
\* optional one
PartialMandatory ==
    <<Kind(Bar, TRUE, FALSE), Kind(Mono, TRUE, FALSE), Kind(Ell, FALSE, FALSE)>>

\* a mandatory instance and two optional ones, on the five cells and a
\* Protected cell apart from them: the mandatory instance takes the
\* Protected cell, and the first candidate of the L leaves no room for the
\* domino although the two fit together
MandatoryThenOptional ==
    <<Kind(Mono, TRUE, FALSE), Kind(Ell, FALSE, FALSE), Kind(Domino, FALSE, FALSE)>>

SixPattern ==
    [rc \in DOMAIN FivePattern \cup {<<2, 0>>} |->
        IF rc = <<2, 0>> THEN "protected" ELSE "powered"]

\* an L with a single candidate on the three cells of the window, followed
\* by four bars that fit nowhere
EllAndBars ==
    [k \in 1..5 |-> IF k = 1 THEN Kind(Ell, FALSE, FALSE) ELSE Kind(Bar, FALSE, FALSE)]

WindowPattern == [rc \in WindowCells |-> "powered"]

\* three instances whose coverage depends on the order they are placed in
ThreeMixed ==
    <<Kind(Ell, FALSE, FALSE), Kind(Domino, FALSE, FALSE), Kind(Domino, FALSE, FALSE)>>

\* one Protected cell at (0,0), every other cell Powered
CornerPattern ==
    [rc \in (0..(GridSize - 1)) \X (0..(GridSize - 1)) |->
        IF rc = <<0, 0>> THEN "protected" ELSE "powered"]

\* three single-cell instances, the one at position f with the shield checked
ShieldedAt(f) == [k \in 1..3 |-> Kind(Mono, FALSE, k = f)]

CornerScenarios ==
    {[kinds |-> ShieldedAt(f), pattern |-> CornerPattern] : f \in 1..3}

\* the longer lists of a generation: the mandatory flags exist in
\* "mandatory", the orderings of a list are explored in "permute", Protected
\* cells exist in every generation but "permute"
Scenarios(ver) ==
    CASE ver = "mandatory" -> {[kinds |-> NineMonos, pattern |-> FullPattern],
                               [kinds |-> PartialMandatory, pattern |-> FivePattern],
                               [kinds |-> MandatoryThenOptional, pattern |-> SixPattern]}
                                 \cup CornerScenarios
      [] ver = "permute"   -> {[kinds |-> NineMixed, pattern |-> FivePattern],
                               [kinds |-> ThreeMixed, pattern |-> FivePattern]}
      [] ver = "priority"  -> {[kinds |-> NineMixed, pattern |-> FivePattern],
                               [kinds |-> NineMixed, pattern |-> ShieldedFive]}
                                 \cup CornerScenarios
      [] OTHER             -> {[kinds |-> NineMixed, pattern |-> FivePattern],
                               [kinds |-> EllAndBars, pattern |-> WindowPattern]}
                                 \cup CornerScenarios

Inputs(ver) ==
    {[kinds |-> kl, pattern |-> pat] :
        kl \in KindLists(ver), pat \in [WindowCells -> CellStates(ver)]}
      \cup Scenarios(ver)

\* ------------------------------------------------------------------------
\* State
\* ------------------------------------------------------------------------

VARIABLES
    version,          \* which generation of solver.js runs
    selectedPieces,   \* argument of solve
    gridState,        \* argument of solve
    gridSize,         \* argument of solve
    requireAll,       \* argument of solve ("permute" only)
    pc,               \* position in solve
    pieces,           \* list handed to the running search or greedy loop
    mode,             \* which backtracking function runs
    ctl,              \* "idle", "call", "loop" or "ret"
    callIdx,          \* pieceIndex of the call about to be entered
    retval,           \* value being returned
    stack,            \* frames of the calls in progress
    placements,       \* the placements array shared by the recursion
    occupiedCells,    \* the Set of occupied keys
    iterationCounter, \* {count, exceeded}
    solution,         \* local of solve / findOneSolution
    timeoutWarning,   \* local of solve
    greedyIdx,        \* position of a greedy loop
    mandatoryFailed,  \* local of solve ("mandatory")
    strategy,         \* which strategy of the "strategies" solve runs
    bestFitSolution,  \* result of strategy 1
    allSolutions,     \* the list of unique solutions
    primarySolution,  \* null, or the primary solution
    primaryStats,
    method,           \* local of solve ("strategies")
    foundMethod,      \* local of findOneSolution / findOneSolutionNoPriority
    permIdx,          \* position in the list of orderings ("permute")
    remaining,        \* indices of a shuffled ordering not yet visited
    bestSolution,     \* locals of findBestSolution
    bestCoverage,
    result,           \* what solve returned
    callNo,           \* 1 for the first call, 2 for the repeated call
    prevResult,       \* what the first call returned
    budgetHit,        \* history: phases of this call that set exceeded
    rotations,        \* components.js: the shape and its successive rotations
    queried,          \* grid.js: the last cell query and what it returned
    currentBuild,     \* builds.js: the current working build, or null
    lastSavedState,   \* builds.js: JSON text of the last saved state, or null
    storage,          \* localStorage: the builds list and the current build id
    nextId,           \* the number generateId uses next
    called,           \* builds.js: the last call and what it returned
    saved             \* history: the state saved for the current build

inputVars == <<version, selectedPieces, gridState, gridSize, requireAll>>

searchVars == <<pieces, mode, ctl, callIdx, retval, stack, placements>>

localVars == <<solution, timeoutWarning, greedyIdx, mandatoryFailed>>

strategyVars == <<strategy, bestFitSolution, allSolutions, primarySolution,
                  primaryStats, method, foundMethod>>

permuteVars == <<permIdx, remaining, bestSolution, bestCoverage>>

callVars == <<callNo, prevResult, budgetHit>>

\* everything solve itself writes, as opposed to the searches it calls
solveVars == <<pc, localVars, strategyVars, permuteVars, result, callVars>>

buildVars == <<currentBuild, lastSavedState, storage, nextId, called, saved>>

\* the state of the modules around the solver: components.js, grid.js,
\* builds.js
appVars == <<rotations, queried, buildVars>>

solverVars == <<searchVars, occupiedCells, iterationCounter, solveVars>>

vars == <<inputVars, solverVars, appVars>>

Null == [isNull |-> TRUE, sol |-> <<>>]

Found(sol) == [isNull |-> FALSE, sol |-> sol]

NoResult == [kind |-> "none"]

NoStats == [placed |-> 0]

\* the state of a call of solve before its first statement
Fresh ==
    /\ pc = "start"
    /\ pieces = <<>>
    /\ mode = "none"
    /\ ctl = "idle"
    /\ callIdx = 0
    /\ retval = Null
    /\ stack = <<>>
    /\ placements = <<>>
    /\ occupiedCells = {}
    /\ iterationCounter = [count |-> 0, exceeded |-> FALSE]
    /\ solution = <<>>
    /\ timeoutWarning = ""
    /\ greedyIdx = 0
    /\ mandatoryFailed = FALSE
    /\ strategy = 0
    /\ bestFitSolution = <<>>
    /\ allSolutions = <<>>
    /\ primarySolution = Null
    /\ primaryStats = NoStats
    /\ method = "backtrack"
    /\ foundMethod = "backtrack"
    /\ permIdx = 0
    /\ remaining = {}
    /\ bestSolution = <<>>
    /\ bestCoverage = 0
    /\ result = NoResult
    /\ budgetHit = {}

NoQuery == [kind |-> "none"]

\* the build state handed to the build functions (getCurrentBuildState):
\* an object of JSON-safe values, each written here as its JSON text
BuildStates ==
    [gridConfig : {"{reactor:a}", "{reactor:b}"}, priorityList : {"[]", "[priority-0]"}]

BlankState == [gridConfig |-> "{reactor:a}", priorityList |-> "[]"]

\* JSON.stringify of an object: the keys whose value is not undefined, in
\* order, each with the JSON text of its value
JSONstringify(value) ==
    [isNull |-> FALSE,
     json   |-> [key \in {k \in DOMAIN value : value[k] # "undefined"} |-> value[key]]]

\* JSON.parse of a text that JSON.stringify wrote
JSONparse(text) == text.json

\* let lastSavedState = null
NoText == [isNull |-> TRUE, json |-> BlankState]

\* name: null
NoName == ""

\* let currentBuild = null
NoBuild == [isNull |-> TRUE, id |-> 0, name |-> NoName, isSaved |-> FALSE,
            state |-> BlankState]

NoCall == [op |-> "none", ok |-> FALSE, isNull |-> TRUE, state |-> BlankState]

NothingSaved == [kind |-> "none", state |-> BlankState]

\* builds.js as the page loads with an empty localStorage
BuildsIdle ==
    /\ currentBuild = NoBuild
    /\ lastSavedState = NoText
    /\ storage = [builds |-> <<>>, current |-> 0]
    /\ nextId = 1
    /\ called = NoCall
    /\ saved = NothingSaved

\* no rotation in progress, no cell queried, no build
AppIdle ==
    /\ rotations = <<>>
    /\ queried = NoQuery
    /\ BuildsIdle

Init ==
    /\ version \in Versions
    /\ gridSize = GridSize
    /\ \E inp \in Inputs(version) :
           /\ selectedPieces = MakePieces(inp.kinds)
           /\ gridState = MakeGrid(version, inp.pattern, gridSize)
    /\ requireAll \in (IF version = "permute" THEN BOOLEAN ELSE {FALSE})
    /\ Fresh
    /\ callNo = 1
    /\ prevResult = NoResult
    /\ AppIdle

\* ------------------------------------------------------------------------
\* The recursive searches, one step per entry, loop iteration and return
\*   "strict"            backtrackStrict
\*   "skip"              backtrackAllowSkip
\*   "strictNoPriority"  backtrackStrictNoPriority
\*   "mandatory"         backtrackMandatory
\*   "backtrack"         backtrack(..., requireAll = true)
\* ------------------------------------------------------------------------

\* the searches that take an iterationCounter
Counted(m) == m \in {"strict", "skip", "strictNoPriority"}

\* every (rotation, origin) the loops of backtrack visit, feasible or not
ScanPositions(piece, size) ==
    LET rot == getAllRotations(piece.shape)
        At(shape, rotIdx) ==
            LET orig == Origins(shape, size)
            IN  [k \in 1..Len(orig) |->
                    [shape |-> shape, row |-> orig[k][1], col |-> orig[k][2],
                     rotIdx |-> rotIdx, protectedCount |-> 0]]
    IN  At(rot[1], 0) \o At(rot[2], 1) \o At(rot[3], 2) \o At(rot[4], 3)

\* backtrackMandatory trying only the best candidate of each piece
placementsToTryFirstOnly(m, piece) ==
    CASE m = "strict" ->
            slice(getValidPlacements(version, piece, gridState, occupiedCells,
                                     gridSize), StrictCandidateLimit)
      [] m = "skip" ->
            slice(getValidPlacements(version, piece, gridState, occupiedCells,
                                     gridSize), SkipCandidateLimit)
      [] m = "strictNoPriority" ->
            slice(getValidPlacementsNoPriority(version, piece, gridState,
                                     occupiedCells, gridSize), StrictCandidateLimit)
      [] m = "mandatory" ->
            slice(getValidPlacements(version, piece, gridState, occupiedCells,
                                     gridSize), 1)
      [] OTHER ->
            ScanPositions(piece, gridSize)

\* backtrackAllowSkip keeping only the candidates that cover a Protected cell
placementsToTryProtectedOnly(m, piece) ==
    IF m = "skip"
    THEN SelectSeq(slice(getValidPlacements(version, piece, gridState, occupiedCells,
                                            gridSize), SkipCandidateLimit),
                   LAMBDA p : p.protectedCount > 0)
    ELSE placementsToTryFirstOnly(m, piece)

\* backtrackAllowSkip taking its candidates in scan order
placementsToTrySkipScanOrder(m, piece) ==
    IF m = "skip"
    THEN slice(getValidPlacementsNoPriority(version, piece, gridState, occupiedCells,
                                            gridSize), SkipCandidateLimit)
    ELSE placementsToTryFirstOnly(m, piece)

\* what the loop of a call iterates over.  backtrack tests canPlace inside
\* its loops, against the occupancy of that moment: its frame holds every
\* scan position and the test is made when the loop reaches it.
placementsToTry(m, piece) ==
    CASE m = "strict" ->
            slice(getValidPlacements(version, piece, gridState, occupiedCells,
                                     gridSize), StrictCandidateLimit)
      [] m = "skip" ->
            slice(getValidPlacements(version, piece, gridState, occupiedCells,
                                     gridSize), SkipCandidateLimit)
      [] m = "strictNoPriority" ->
            slice(getValidPlacementsNoPriority(version, piece, gridState,
                                     occupiedCells, gridSize), StrictCandidateLimit)
      [] m = "mandatory" ->
            getValidPlacements(version, piece, gridState, occupiedCells, gridSize)
      [] OTHER ->
            ScanPositions(piece, gridSize)

\* index in frame.toTry of the candidate the loop places next, 0 at loop end
NextIndex(m, f) ==
    IF m = "backtrack"
    THEN LET ok == {j \in (f.i + 1)..Len(f.toTry) :
                      canPlace(version, f.toTry[j].shape, f.toTry[j].row,
                               f.toTry[j].col, gridState, occupiedCells, gridSize)}
         IN  IF ok = {} THEN 0 ELSE CHOOSE j \in ok : \A k \in ok : j <= k
    ELSE IF f.i < Len(f.toTry) THEN f.i + 1 ELSE 0

\* a budget test that never fires
OverBudgetNever(count) == FALSE

\* iterationCounter.count > MAX_BACKTRACK_ITERATIONS
OverBudget(count) == count > MAX_BACKTRACK_ITERATIONS

Pop(seq) == SubSeq(seq, 1, Len(seq) - 1)

Top(seq) == seq[Len(seq)]

\* the call of a search from solve: fresh placements array, pieceIndex 0
BeginSearch(m, list) ==
    /\ mode' = m
    /\ pieces' = list
    /\ ctl' = "call"
    /\ callIdx' = 0
    /\ retval' = Null
    /\ stack' = <<>>
    /\ placements' = <<>>

\* entry: iterationCounter.count++ and the budget test
BtEnterExceeded ==
    /\ ctl = "call"
    /\ Counted(mode)
    /\ OverBudget(iterationCounter.count + 1)
    /\ iterationCounter' = [count |-> iterationCounter.count + 1, exceeded |-> TRUE]
    /\ retval' = Null
    /\ ctl' = "ret"
    /\ budgetHit' = budgetHit \cup {pc}
    /\ UNCHANGED <<inputVars, pc, localVars, strategyVars, permuteVars, result,
                   callNo, prevResult, pieces, mode, callIdx, stack, placements,
                   occupiedCells>>
    /\ UNCHANGED appVars

EnterCount ==
    IF Counted(mode)
    THEN [iterationCounter EXCEPT !.count = @ + 1]
    ELSE iterationCounter

\* entry with pieceIndex >= pieces.length: return [...placements]
BtEnterBase ==
    /\ ctl = "call"
    /\ ~(Counted(mode) /\ OverBudget(iterationCounter.count + 1))
    /\ callIdx >= Len(pieces)
    /\ iterationCounter' = EnterCount
    /\ retval' = Found(placements)
    /\ ctl' = "ret"
    /\ UNCHANGED <<inputVars, solveVars, pieces, mode, callIdx, stack, placements,
                   occupiedCells>>
    /\ UNCHANGED appVars

\* entry with a piece to place: compute its candidates, start the loop
BtEnterPiece ==
    /\ ctl = "call"
    /\ ~(Counted(mode) /\ OverBudget(iterationCounter.count + 1))
    /\ callIdx < Len(pieces)
    /\ iterationCounter' = EnterCount
    /\ stack' = Append(stack, [pieceIndex |-> callIdx,
                               toTry |-> placementsToTry(mode, pieces[callIdx + 1]),
                               i |-> 0, tail |-> FALSE])
    /\ ctl' = "loop"
    /\ UNCHANGED <<inputVars, solveVars, pieces, mode, callIdx, retval, placements,
                   occupiedCells>>
    /\ UNCHANGED appVars

\* the budget test at the head of a loop iteration
BtLoopExceeded ==
    /\ ctl = "loop"
    /\ NextIndex(mode, Top(stack)) # 0
    /\ Counted(mode)
    /\ OverBudget(iterationCounter.count)
    /\ iterationCounter' = [iterationCounter EXCEPT !.exceeded = TRUE]
    /\ stack' = Pop(stack)
    /\ retval' = Null
    /\ ctl' = "ret"
    /\ budgetHit' = budgetHit \cup {pc}
    /\ UNCHANGED <<inputVars, pc, localVars, strategyVars, permuteVars, result,
                   callNo, prevResult, pieces, mode, callIdx, placements,
                   occupiedCells>>
    /\ UNCHANGED appVars

\* one loop iteration: place the next candidate and recurse
BtLoopTry ==
    /\ ctl = "loop"
    /\ NextIndex(mode, Top(stack)) # 0
    /\ ~(Counted(mode) /\ OverBudget(iterationCounter.count))
    /\ LET f    == Top(stack)
           j    == NextIndex(mode, f)
           cand == f.toTry[j]
       IN  /\ occupiedCells' = placePiece(cand.shape, cand.row, cand.col, occupiedCells)
           /\ placements' = Append(placements,
                                   MakePlacement(pieces[f.pieceIndex + 1], cand))
           /\ stack' = [stack EXCEPT ![Len(stack)].i = j]
           /\ callIdx' = f.pieceIndex + 1
    /\ ctl' = "call"
    /\ UNCHANGED <<inputVars, solveVars, pieces, mode, retval, iterationCounter>>
    /\ UNCHANGED appVars

\* the skip after the loop made by every search, not only the skipping one
BtLoopSkipAnyMode ==
    /\ ctl = "loop"
    /\ NextIndex(mode, Top(stack)) = 0
    /\ stack' = [stack EXCEPT ![Len(stack)].tail = TRUE]
    /\ callIdx' = Top(stack).pieceIndex + 1
    /\ ctl' = "call"
    /\ UNCHANGED <<inputVars, solveVars, pieces, mode, retval, placements,
                   occupiedCells, iterationCounter>>
    /\ UNCHANGED appVars

\* backtrackAllowSkip after its loop: return backtrackAllowSkip(pieceIndex + 1)
BtLoopSkip ==
    /\ ctl = "loop"
    /\ NextIndex(mode, Top(stack)) = 0
    /\ mode = "skip"
    /\ stack' = [stack EXCEPT ![Len(stack)].tail = TRUE]
    /\ callIdx' = Top(stack).pieceIndex + 1
    /\ ctl' = "call"
    /\ UNCHANGED <<inputVars, solveVars, pieces, mode, retval, placements,
                   occupiedCells, iterationCounter>>
    /\ UNCHANGED appVars

\* the no-skip searches after their loop: return null
BtLoopFail ==
    /\ ctl = "loop"
    /\ NextIndex(mode, Top(stack)) = 0
    /\ mode # "skip"
    /\ stack' = Pop(stack)
    /\ retval' = Null
    /\ ctl' = "ret"
    /\ UNCHANGED <<inputVars, solveVars, pieces, mode, callIdx, placements,
                   occupiedCells, iterationCounter>>
    /\ UNCHANGED appVars

\* the skipping call returned: its value is returned as it is
BtReturnTail ==
    /\ ctl = "ret"
    /\ stack # <<>>
    /\ Top(stack).tail
    /\ stack' = Pop(stack)
    /\ UNCHANGED <<inputVars, solveVars, pieces, mode, ctl, callIdx, retval,
                   placements, occupiedCells, iterationCounter>>
    /\ UNCHANGED appVars

\* result !== null: return result
BtReturnFound ==
    /\ ctl = "ret"
    /\ stack # <<>>
    /\ ~Top(stack).tail
    /\ ~retval.isNull
    /\ stack' = Pop(stack)
    /\ UNCHANGED <<inputVars, solveVars, pieces, mode, ctl, callIdx, retval,
                   placements, occupiedCells, iterationCounter>>
    /\ UNCHANGED appVars

\* result === null: placements.pop without removePiece
BtReturnUndoKeepsCells ==
    /\ ctl = "ret"
    /\ stack # <<>>
    /\ ~Top(stack).tail
    /\ retval.isNull
    /\ placements' = Pop(placements)
    /\ ctl' = "loop"
    /\ UNCHANGED <<inputVars, solveVars, pieces, mode, callIdx, retval, stack,
                   iterationCounter, occupiedCells>>
    /\ UNCHANGED appVars

\* result === null: removePiece, placements.pop, next iteration
BtReturnUndo ==
    /\ ctl = "ret"
    /\ stack # <<>>
    /\ ~Top(stack).tail
    /\ retval.isNull
    /\ occupiedCells' = removePiece(Top(placements).cells, occupiedCells)
    /\ placements' = Pop(placements)
    /\ ctl' = "loop"
    /\ UNCHANGED <<inputVars, solveVars, pieces, mode, callIdx, retval, stack,
                   iterationCounter>>
    /\ UNCHANGED appVars

\* the outermost call has returned to solve
SearchReturned == ctl = "ret" /\ stack = <<>>

\* solve has taken the returned value
SearchIdle ==
    /\ mode' = "none"
    /\ ctl' = "idle"
    /\ callIdx' = 0
    /\ retval' = Null
    /\ stack' = <<>>
    /\ placements' = <<>>

\* ------------------------------------------------------------------------
\* Greedy placement of one piece
\* ------------------------------------------------------------------------

\* the first candidate of the list is taken, or null when the list is empty
FirstPlacement(piece, valid, occupied) ==
    IF Len(valid) = 0
    THEN [isNull |-> TRUE, placement |-> <<>>, occupied |-> occupied]
    ELSE [isNull |-> FALSE,
          placement |-> MakePlacement(piece, valid[1]),
          occupied |-> placePiece(valid[1].shape, valid[1].row, valid[1].col,
                                  occupied)]

\* the greedy choice taking the last candidate of the list
tryPlacePieceLast(piece, occupied) ==
    LET valid == getValidPlacements(version, piece, gridState, occupied, gridSize)
    IN  FirstPlacement(piece, [k \in 1..Len(valid) |-> valid[Len(valid) + 1 - k]],
                       occupied)

tryPlacePiece(piece, occupied) ==
    FirstPlacement(piece,
                   getValidPlacements(version, piece, gridState, occupied, gridSize),
                   occupied)

tryPlacePieceNoPriority(piece, occupied) ==
    FirstPlacement(piece,
                   getValidPlacementsNoPriority(version, piece, gridState, occupied,
                                                gridSize),
                   occupied)

\* if (placement) solution.push(placement)
PushPlacement(p) ==
    /\ occupiedCells' = p.occupied
    /\ solution' = IF p.isNull THEN solution ELSE Append(solution, p.placement)

\* the loop leaving at the first piece that cannot be placed
GreedyIterationAbort(noPriority) ==
    /\ greedyIdx < Len(pieces)
    /\ PushPlacement(IF noPriority
                     THEN tryPlacePieceNoPriority(pieces[greedyIdx + 1], occupiedCells)
                     ELSE tryPlacePiece(pieces[greedyIdx + 1], occupiedCells))
    /\ greedyIdx' = IF tryPlacePieceNoPriority(pieces[greedyIdx + 1],
                                               occupiedCells).isNull
                    THEN Len(pieces) ELSE greedyIdx + 1

\* one iteration of  for (const piece of pieces) { tryPlacePiece ... push }
GreedyIteration(noPriority) ==
    /\ greedyIdx < Len(pieces)
    /\ PushPlacement(IF noPriority
                     THEN tryPlacePieceNoPriority(pieces[greedyIdx + 1], occupiedCells)
                     ELSE tryPlacePiece(pieces[greedyIdx + 1], occupiedCells))
    /\ greedyIdx' = greedyIdx + 1

\* ------------------------------------------------------------------------
\* Statistics and results
\* ------------------------------------------------------------------------

AllCells(size) == (0..(size - 1)) \X (0..(size - 1))

\* poweredCount counting every cell of the grid
poweredCountEveryCell == gridSize * gridSize

\* the counting loops at the head of solve
poweredCount ==
    CASE version \in {"priority", "mandatory"} ->
            Cardinality({rc \in AllCells(gridSize) :
                gridState[rc[1]][rc[2]] = 1 \/ gridState[rc[1]][rc[2]] = 2})
      [] version = "strategies" ->
            Cardinality({rc \in AllCells(gridSize) :
                gridState[rc[1]][rc[2]] = 0 \/ gridState[rc[1]][rc[2]] = 1})
      [] OTHER ->
            Cardinality({rc \in AllCells(gridSize) : gridState[rc[1]][rc[2]] = TRUE})

protectedCount ==
    CASE version \in {"priority", "mandatory"} ->
            Cardinality({rc \in AllCells(gridSize) : gridState[rc[1]][rc[2]] = 2})
      [] version = "strategies" ->
            Cardinality({rc \in AllCells(gridSize) : gridState[rc[1]][rc[2]] = 1})
      [] OTHER -> 0

RECURSIVE SumCells(_)
SumCells(sol) ==
    IF sol = <<>> THEN 0 ELSE Len(sol[1].cells) + SumCells(Tail(sol))

ProtectedIn(cells) ==
    Cardinality({k \in 1..Len(cells) :
        isProtectedValue(version, gridState[cells[k][1]][cells[k][2]])})

\* coveredProtected counting every covered cell
SumProtectedEveryCell(sol) == SumCells(sol)

RECURSIVE SumProtected(_)
SumProtected(sol) ==
    IF sol = <<>> THEN 0 ELSE ProtectedIn(sol[1].cells) + SumProtected(Tail(sol))

\* the "strategies" generation adds solutions: [] to its failure results
Failure(message) ==
    IF version = "strategies"
    THEN [kind |-> "failed", success |-> FALSE, solution |-> <<>>,
          solutions |-> <<>>, message |-> message]
    ELSE [kind |-> "failed", success |-> FALSE, solution |-> <<>>,
          message |-> message]

\* selectedPieces.length === 0
SolveRejectEmpty ==
    /\ pc = "start"
    /\ Len(selectedPieces) = 0
    /\ result' = Failure(IF version = "permute" THEN "No pieces selected"
                         ELSE "No components selected")
    /\ pc' = "done"
    /\ UNCHANGED <<inputVars, searchVars, occupiedCells, iterationCounter,
                   localVars, strategyVars, permuteVars, callVars>>
    /\ UNCHANGED appVars

\* poweredCount === 0
SolveRejectNoPower ==
    /\ pc = "start"
    /\ Len(selectedPieces) # 0
    /\ poweredCount = 0
    /\ result' = Failure("No powered cells on the grid")
    /\ pc' = "done"
    /\ UNCHANGED <<inputVars, searchVars, occupiedCells, iterationCounter,
                   localVars, strategyVars, permuteVars, callVars>>
    /\ UNCHANGED appVars

InputAccepted ==
    /\ pc = "start"
    /\ Len(selectedPieces) # 0
    /\ poweredCount # 0

\* ------------------------------------------------------------------------
\* solve, generation "priority" (solver.js:281-407)
\* ------------------------------------------------------------------------

\* phase 1, or the greedy loop when there are too many pieces
PriorityBegin ==
    /\ version = "priority"
    /\ InputAccepted
    /\ occupiedCells' = {}
    /\ solution' = <<>>
    /\ timeoutWarning' = ""
    /\ greedyIdx' = 0
    /\ IF Len(selectedPieces) <= MAX_PIECES_FOR_BACKTRACK
       THEN /\ iterationCounter' = [count |-> 0, exceeded |-> FALSE]
            /\ BeginSearch("strict", selectedPieces)
            /\ pc' = "phase1"
       ELSE /\ pc' = "greedyAll"
            /\ pieces' = selectedPieces
            /\ UNCHANGED <<mode, ctl, callIdx, retval, stack, placements,
                           iterationCounter>>
    /\ UNCHANGED <<inputVars, mandatoryFailed, strategyVars, permuteVars, result,
                   callVars>>
    /\ UNCHANGED appVars

\* backtrackStrict returned a full solution
PriorityPhase1Found ==
    /\ version = "priority"
    /\ pc = "phase1"
    /\ SearchReturned
    /\ ~retval.isNull
    /\ solution' = retval.sol
    /\ SearchIdle
    /\ pc' = "stats"
    /\ UNCHANGED <<inputVars, pieces, occupiedCells, iterationCounter,
                   timeoutWarning, greedyIdx, mandatoryFailed, strategyVars,
                   permuteVars, result, callVars>>
    /\ UNCHANGED appVars

\* backtrackStrict returned null and solve goes straight to the greedy pass
PriorityPhase1NullToGreedy ==
    /\ version = "priority"
    /\ pc = "phase1"
    /\ SearchReturned
    /\ retval.isNull
    /\ occupiedCells' = {}
    /\ SearchIdle
    /\ pc' = "phase3"
    /\ UNCHANGED <<inputVars, pieces, iterationCounter, localVars, strategyVars,
                   permuteVars, result, callVars>>
    /\ UNCHANGED appVars

\* backtrackStrict returned null and phase 2 goes on with the same counter
PriorityPhase1NullKeepsCount ==
    /\ version = "priority"
    /\ pc = "phase1"
    /\ SearchReturned
    /\ retval.isNull
    /\ occupiedCells' = {}
    /\ BeginSearch("skip", selectedPieces)
    /\ pc' = "phase2"
    /\ UNCHANGED <<inputVars, iterationCounter, localVars, strategyVars,
                   permuteVars, result, callVars>>
    /\ UNCHANGED appVars

\* backtrackStrict returned null: clear, reset the counter, phase 2
PriorityPhase1Null ==
    /\ version = "priority"
    /\ pc = "phase1"
    /\ SearchReturned
    /\ retval.isNull
    /\ occupiedCells' = {}
    /\ iterationCounter' = [count |-> 0, exceeded |-> FALSE]
    /\ BeginSearch("skip", selectedPieces)
    /\ pc' = "phase2"
    /\ UNCHANGED <<inputVars, localVars, strategyVars, permuteVars, result,
                   callVars>>
    /\ UNCHANGED appVars

\* backtrackAllowSkip returned
PriorityPhase2Done ==
    /\ version = "priority"
    /\ pc = "phase2"
    /\ SearchReturned
    /\ timeoutWarning' = IF iterationCounter.exceeded
                         THEN " (search limit reached)" ELSE timeoutWarning
    /\ IF ~retval.isNull
       THEN /\ solution' = retval.sol
            /\ pc' = "stats"
            /\ UNCHANGED occupiedCells
       ELSE /\ occupiedCells' = {}
            /\ pc' = "phase3"
            /\ UNCHANGED solution
    /\ SearchIdle
    /\ UNCHANGED <<inputVars, pieces, iterationCounter, greedyIdx, mandatoryFailed,
                   strategyVars, permuteVars, result, callVars>>
    /\ UNCHANGED appVars

\* one iteration of a greedy loop over selectedPieces
PriorityGreedyStep ==
    /\ version = "priority"
    /\ pc \in {"phase3", "greedyAll"}
    /\ GreedyIteration(FALSE)
    /\ UNCHANGED <<inputVars, searchVars, iterationCounter, pc, timeoutWarning,
                   mandatoryFailed, strategyVars, permuteVars, result, callVars>>
    /\ UNCHANGED appVars

\* the greedy loop is over
PriorityGreedyDone ==
    /\ version = "priority"
    /\ pc \in {"phase3", "greedyAll"}
    /\ greedyIdx >= Len(pieces)
    /\ timeoutWarning' =
          IF pc = "greedyAll" /\ Len(selectedPieces) > MAX_PIECES_FOR_BACKTRACK
          THEN " (greedy mode)" ELSE timeoutWarning
    /\ pc' = "stats"
    /\ UNCHANGED <<inputVars, searchVars, occupiedCells, iterationCounter, solution,
                   greedyIdx, mandatoryFailed, strategyVars, permuteVars, result,
                   callVars>>
    /\ UNCHANGED appVars

\* coverage statistics, message and the returned object
PriorityFinish ==
    /\ version = "priority"
    /\ pc = "stats"
    /\ result' =
          [kind     |-> "solved",
           success  |-> Len(solution) > 0,
           solution |-> solution,
           message  |-> [text |-> "Placed", warning |-> timeoutWarning],
           stats    |-> [placed           |-> Len(solution),
                         total            |-> Len(selectedPieces),
                         coveredCells     |-> SumCells(solution),
                         poweredCount     |-> poweredCount,
                         coveredProtected |-> SumProtected(solution),
                         protectedCount   |-> protectedCount]]
    /\ pc' = "done"
    /\ UNCHANGED <<inputVars, searchVars, occupiedCells, iterationCounter,
                   localVars, strategyVars, permuteVars, callVars>>
    /\ UNCHANGED appVars

\* ------------------------------------------------------------------------
\* solve, generation "mandatory" (solver.js:608-728)
\* ------------------------------------------------------------------------

mandatoryPieces == SelectSeq(selectedPieces, LAMBDA p : p.mandatory)

optionalPieces == SelectSeq(selectedPieces, LAMBDA p : ~p.mandatory)

\* step 1: backtrackMandatory over the mandatory pieces, if there are any
MandatoryBegin ==
    /\ version = "mandatory"
    /\ InputAccepted
    /\ occupiedCells' = {}
    /\ solution' = <<>>
    /\ mandatoryFailed' = FALSE
    /\ greedyIdx' = 0
    /\ IF Len(mandatoryPieces) > 0
       THEN /\ BeginSearch("mandatory", mandatoryPieces)
            /\ pc' = "mandatorySearch"
       ELSE /\ pc' = "optional"
            /\ pieces' = optionalPieces
            /\ UNCHANGED <<mode, ctl, callIdx, retval, stack, placements>>
    /\ UNCHANGED <<inputVars, iterationCounter, timeoutWarning, strategyVars,
                   permuteVars, result, callVars>>
    /\ UNCHANGED appVars

\* mandatorySolution !== null
MandatorySearchFound ==
    /\ version = "mandatory"
    /\ pc = "mandatorySearch"
    /\ SearchReturned
    /\ ~retval.isNull
    /\ solution' = retval.sol
    /\ SearchIdle
    /\ pieces' = optionalPieces
    /\ greedyIdx' = 0
    /\ pc' = "optional"
    /\ UNCHANGED <<inputVars, occupiedCells, iterationCounter, timeoutWarning,
                   mandatoryFailed, strategyVars, permuteVars, result, callVars>>
    /\ UNCHANGED appVars

\* mandatorySolution === null answered by a failure result
MandatorySearchNullFails ==
    /\ version = "mandatory"
    /\ pc = "mandatorySearch"
    /\ SearchReturned
    /\ retval.isNull
    /\ mandatoryFailed' = TRUE
    /\ SearchIdle
    /\ result' = Failure("Mandatory components do not fit")
    /\ pc' = "done"
    /\ UNCHANGED <<inputVars, pieces, occupiedCells, iterationCounter, solution,
                   timeoutWarning, greedyIdx, strategyVars, permuteVars, callVars>>
    /\ UNCHANGED appVars

\* mandatorySolution === null: greedy over the mandatory pieces, on the
\* occupancy set the search left behind
MandatorySearchNull ==
    /\ version = "mandatory"
    /\ pc = "mandatorySearch"
    /\ SearchReturned
    /\ retval.isNull
    /\ mandatoryFailed' = TRUE
    /\ SearchIdle
    /\ pieces' = mandatoryPieces
    /\ greedyIdx' = 0
    /\ pc' = "mandatoryGreedy"
    /\ UNCHANGED <<inputVars, occupiedCells, iterationCounter, solution,
                   timeoutWarning, strategyVars, permuteVars, result, callVars>>
    /\ UNCHANGED appVars

\* one iteration of either greedy loop
MandatoryGreedyStep ==
    /\ version = "mandatory"
    /\ pc \in {"mandatoryGreedy", "optional"}
    /\ GreedyIteration(FALSE)
    /\ UNCHANGED <<inputVars, searchVars, iterationCounter, pc, timeoutWarning,
                   mandatoryFailed, strategyVars, permuteVars, result, callVars>>
    /\ UNCHANGED appVars

\* the greedy loop over the mandatory pieces is over: step 2
MandatoryGreedyDone ==
    /\ version = "mandatory"
    /\ pc = "mandatoryGreedy"
    /\ greedyIdx >= Len(pieces)
    /\ pieces' = optionalPieces
    /\ greedyIdx' = 0
    /\ pc' = "optional"
    /\ UNCHANGED <<inputVars, mode, ctl, callIdx, retval, stack, placements,
                   occupiedCells, iterationCounter, solution, timeoutWarning,
                   mandatoryFailed, strategyVars, permuteVars, result, callVars>>
    /\ UNCHANGED appVars

\* the loop over the optional pieces is over
MandatoryOptionalDone ==
    /\ version = "mandatory"
    /\ pc = "optional"
    /\ greedyIdx >= Len(pieces)
    /\ pc' = "stats"
    /\ UNCHANGED <<inputVars, searchVars, occupiedCells, iterationCounter,
                   localVars, strategyVars, permuteVars, result, callVars>>
    /\ UNCHANGED appVars

\* solution.filter(p => mandatoryPieces.some(m => m.priorityId === p.priorityId))
mandatoryPlaced(sol) ==
    Cardinality({k \in 1..Len(sol) :
        \E j \in 1..Len(mandatoryPieces) :
            mandatoryPieces[j].priorityId = sol[k].priorityId})

MandatoryFinish ==
    /\ version = "mandatory"
    /\ pc = "stats"
    /\ result' =
          [kind     |-> "solved",
           success  |-> Len(solution) > 0,
           solution |-> solution,
           message  |-> [text |-> IF Len(mandatoryPieces) > 0
                                     /\ mandatoryPlaced(solution) < Len(mandatoryPieces)
                                  THEN "Warning: Only some mandatory components fit"
                                  ELSE "Placed",
                         warning |-> ""],
           stats    |-> [placed           |-> Len(solution),
                         total            |-> Len(selectedPieces),
                         mandatoryPlaced  |-> mandatoryPlaced(solution),
                         totalMandatory   |-> Len(mandatoryPieces),
                         coveredCells     |-> SumCells(solution),
                         poweredCount     |-> poweredCount,
                         coveredProtected |-> SumProtected(solution),
                         protectedCount   |-> protectedCount]]
    /\ pc' = "done"
    /\ UNCHANGED <<inputVars, searchVars, occupiedCells, iterationCounter,
                   localVars, strategyVars, permuteVars, callVars>>
    /\ UNCHANGED appVars

\* ------------------------------------------------------------------------
\* solve, generation "strategies" (part_007:276-815)
\* ------------------------------------------------------------------------

hasProtected(placement) == ProtectedIn(placement.cells) > 0

scoreProtectedCoverage(sol) == SumProtected(sol)

scoreShieldedComponents(sol) ==
    Cardinality({k \in 1..Len(sol) : hasProtected(sol[k])})

\* priorityMap: weight length - index for the id at index (0-based)
PriorityWeight(priorityId, priorityOrder) ==
    IF \E k \in 1..Len(priorityOrder) : priorityOrder[k] = priorityId
    THEN Len(priorityOrder) + 1
           - (CHOOSE k \in 1..Len(priorityOrder) : priorityOrder[k] = priorityId)
    ELSE 1

RECURSIVE scorePriorityShielding(_, _)
scorePriorityShielding(sol, priorityOrder) ==
    IF sol = <<>> THEN 0
    ELSE (IF hasProtected(sol[1])
          THEN PriorityWeight(sol[1].priorityId, priorityOrder) ELSE 0)
           + scorePriorityShielding(Tail(sol), priorityOrder)

\* sol2 has as many placements as sol1 and every `priorityId:row,col` key of
\* sol2 is a key of sol1
solutionsEqual(sol1, sol2) ==
    /\ Len(sol1) = Len(sol2)
    /\ \A k \in 1..Len(sol2) : \A j \in 1..Len(sol2[k].cells) :
           \E a \in 1..Len(sol1) : \E b \in 1..Len(sol1[a].cells) :
               /\ sol1[a].priorityId = sol2[k].priorityId
               /\ sol1[a].cells[b] = sol2[k].cells[j]

calculateSolutionStats(sol, totalComponents) ==
    [placed             |-> Len(sol),
     total              |-> totalComponents,
     coveredCells       |-> SumCells(sol),
     poweredCount       |-> poweredCount,
     coveredProtected   |-> SumProtected(sol),
     protectedCount     |-> protectedCount,
     shieldedComponents |-> scoreShieldedComponents(sol)]

\* the entry pushed on allSolutions
SolutionEntry(id, sol) ==
    [id       |-> id,
     solution |-> sol,
     stats    |-> calculateSolutionStats(sol, Len(selectedPieces)),
     scores   |-> [protected |-> scoreProtectedCoverage(sol),
                   shielded  |-> scoreShieldedComponents(sol),
                   priority  |-> scorePriorityShielding(sol,
                       [k \in 1..Len(selectedPieces) |-> selectedPieces[k].priorityId])]]

\* [...selectedPieces].sort by countCells; the sort is stable
RECURSIVE BySize(_, _, _)
BySize(list, size, step) ==
    IF size < 0 \/ \A k \in 1..Len(list) : countCells(list[k].shape) < size
    THEN <<>>
    ELSE SelectSeq(list, LAMBDA p : countCells(p.shape) = size)
           \o BySize(list, size + step, step)

LargestSize(list) ==
    IF list = <<>> THEN 0
    ELSE CHOOSE s \in {countCells(list[k].shape) : k \in 1..Len(list)} :
             \A k \in 1..Len(list) : countCells(list[k].shape) <= s

SortedDescending(list) == BySize(list, LargestSize(list), -1)

SortedAscending(list) == BySize(list, 0, 1)

StrategyIds ==
    <<"best-fit", "priority-shield", "use-all-protected", "most-shielded">>

\* the list each strategy hands to its search
StrategyPieces(s) ==
    CASE s = 1 -> SortedDescending(selectedPieces)
      [] s = 2 -> selectedPieces
      [] s = 3 -> SortedDescending(selectedPieces)
      [] OTHER -> SortedAscending(selectedPieces)

\* the list sorted in place: the caller's list takes the order of the strategy
SortInPlace(m, s) ==
    /\ BeginSearch(m, StrategyPieces(s))
    /\ selectedPieces' = StrategyPieces(s)

\* [...selectedPieces].sort(...): the search gets a sorted copy (strategy 2:
\* the list itself, which it only reads) and the caller's list stays as it is
SortCopy(m, s) ==
    /\ BeginSearch(m, StrategyPieces(s))
    /\ selectedPieces' = selectedPieces

\* the first statements of findOneSolution / findOneSolutionNoPriority
BeginFindOne(s) ==
    /\ strategy' = s
    /\ occupiedCells' = {}
    /\ solution' = <<>>
    /\ foundMethod' = "backtrack"
    /\ greedyIdx' = 0
    /\ iterationCounter' = [count |-> 0, exceeded |-> FALSE]
    /\ SortCopy(IF s = 1 THEN "strictNoPriority" ELSE "strict", s)
    /\ pc' = "strict"

StrategiesBegin ==
    /\ version = "strategies"
    /\ InputAccepted
    /\ BeginFindOne(1)
    /\ allSolutions' = <<>>
    /\ bestFitSolution' = <<>>
    /\ primarySolution' = Null
    /\ primaryStats' = NoStats
    /\ method' = "backtrack"
    /\ UNCHANGED <<version, gridState, gridSize, requireAll, timeoutWarning, mandatoryFailed, permuteVars, result,
                   callVars>>
    /\ UNCHANGED appVars

\* fullSolution !== null
StrategyStrictFound ==
    /\ version = "strategies"
    /\ pc = "strict"
    /\ SearchReturned
    /\ ~retval.isNull
    /\ solution' = retval.sol
    /\ SearchIdle
    /\ pc' = "conclude"
    /\ UNCHANGED <<inputVars, pieces, occupiedCells, iterationCounter,
                   timeoutWarning, greedyIdx, mandatoryFailed, strategyVars,
                   permuteVars, result, callVars>>
    /\ UNCHANGED appVars

\* findOneSolutionNoPriority, fullSolution === null: straight to greedy
NoPriorityStrictNull ==
    /\ version = "strategies"
    /\ pc = "strict"
    /\ strategy = 1
    /\ SearchReturned
    /\ retval.isNull
    /\ occupiedCells' = {}
    /\ SearchIdle
    /\ pc' = "greedy"
    /\ UNCHANGED <<inputVars, pieces, iterationCounter, localVars, strategyVars,
                   permuteVars, result, callVars>>
    /\ UNCHANGED appVars

\* findOneSolution, fullSolution === null: phase 2
StrategyStrictNull ==
    /\ version = "strategies"
    /\ pc = "strict"
    /\ strategy > 1
    /\ SearchReturned
    /\ retval.isNull
    /\ occupiedCells' = {}
    /\ iterationCounter' = [count |-> 0, exceeded |-> FALSE]
    /\ BeginSearch("skip", pieces)
    /\ pc' = "skip"
    /\ UNCHANGED <<inputVars, localVars, strategyVars, permuteVars, result,
                   callVars>>
    /\ UNCHANGED appVars

\* partialSolution !== null
StrategySkipFound ==
    /\ version = "strategies"
    /\ pc = "skip"
    /\ SearchReturned
    /\ ~retval.isNull
    /\ solution' = retval.sol
    /\ foundMethod' = IF iterationCounter.exceeded THEN "backtrack-partial"
                      ELSE foundMethod
    /\ SearchIdle
    /\ pc' = "conclude"
    /\ UNCHANGED <<inputVars, pieces, occupiedCells, iterationCounter,
                   timeoutWarning, greedyIdx, mandatoryFailed, strategy,
                   bestFitSolution, allSolutions, primarySolution, primaryStats,
                   method, permuteVars, result, callVars>>
    /\ UNCHANGED appVars

\* partialSolution === null: phase 3
StrategySkipNull ==
    /\ version = "strategies"
    /\ pc = "skip"
    /\ SearchReturned
    /\ retval.isNull
    /\ occupiedCells' = {}
    /\ SearchIdle
    /\ pc' = "greedy"
    /\ UNCHANGED <<inputVars, pieces, iterationCounter, localVars, strategyVars,
                   permuteVars, result, callVars>>
    /\ UNCHANGED appVars

StrategyGreedyStep ==
    /\ version = "strategies"
    /\ pc = "greedy"
    /\ GreedyIteration(strategy = 1)
    /\ UNCHANGED <<inputVars, searchVars, iterationCounter, pc, timeoutWarning,
                   mandatoryFailed, strategyVars, permuteVars, result, callVars>>
    /\ UNCHANGED appVars

\* method = 'greedy'; return { solution, method }
StrategyGreedyDone ==
    /\ version = "strategies"
    /\ pc = "greedy"
    /\ greedyIdx >= Len(pieces)
    /\ foundMethod' = "greedy"
    /\ pc' = "conclude"
    /\ UNCHANGED <<inputVars, searchVars, occupiedCells, iterationCounter,
                   localVars, strategy, bestFitSolution, allSolutions,
                   primarySolution, primaryStats, method, permuteVars, result,
                   callVars>>
    /\ UNCHANGED appVars

\* isUnique that is never false
IsUniqueAlways(s, sol) == TRUE

\* isUnique, as each strategy computes it
IsUnique(s, sol) ==
    CASE s = 1 -> TRUE
      [] s = 2 -> ~solutionsEqual(sol, bestFitSolution)
      [] OTHER -> \A k \in 1..Len(allSolutions) :
                      ~solutionsEqual(sol, allSolutions[k].solution)

\* the primary solution taken from the last strategy that found something
ConcludedLastWins ==
    /\ bestFitSolution' = IF strategy = 1 THEN solution ELSE bestFitSolution
    /\ allSolutions' =
          IF Len(solution) > 0 /\ IsUnique(strategy, solution)
          THEN Append(allSolutions, SolutionEntry(StrategyIds[strategy], solution))
          ELSE allSolutions
    /\ IF Len(solution) > 0
       THEN /\ primarySolution' = Found(solution)
            /\ primaryStats' = calculateSolutionStats(solution, Len(selectedPieces))
            /\ method' = foundMethod
       ELSE UNCHANGED <<primarySolution, primaryStats, method>>

\* what solve does with the { solution, method } a strategy returned
Concluded ==
    /\ bestFitSolution' = IF strategy = 1 THEN solution ELSE bestFitSolution
    /\ allSolutions' =
          IF Len(solution) > 0 /\ IsUnique(strategy, solution)
          THEN Append(allSolutions, SolutionEntry(StrategyIds[strategy], solution))
          ELSE allSolutions
    /\ IF Len(solution) > 0
          /\ (strategy = 1 \/ (strategy = 2 /\ primarySolution.isNull))
       THEN /\ primarySolution' = Found(solution)
            /\ primaryStats' = calculateSolutionStats(solution, Len(selectedPieces))
            /\ method' = foundMethod
       ELSE UNCHANGED <<primarySolution, primaryStats, method>>

\* strategies 3 and 4 run only if (protectedCount > 0)
HasNextStrategy ==
    \/ strategy = 1
    \/ strategy \in {2, 3} /\ protectedCount > 0

StrategyConcludeNext ==
    /\ version = "strategies"
    /\ pc = "conclude"
    /\ HasNextStrategy
    /\ Concluded
    /\ BeginFindOne(strategy + 1)
    /\ UNCHANGED <<version, gridState, gridSize, requireAll, timeoutWarning, mandatoryFailed, permuteVars, result,
                   callVars>>
    /\ UNCHANGED appVars

StrategyConcludeLast ==
    /\ version = "strategies"
    /\ pc = "conclude"
    /\ ~HasNextStrategy
    /\ Concluded
    /\ pc' = "stats"
    /\ UNCHANGED <<inputVars, searchVars, occupiedCells, iterationCounter,
                   localVars, strategy, foundMethod, permuteVars, result, callVars>>
    /\ UNCHANGED appVars

\* fallback, message and the returned object
StrategiesFinish ==
    /\ version = "strategies"
    /\ pc = "stats"
    /\ result' =
          [kind      |-> "solved",
           success   |-> (IF primarySolution.isNull THEN 0
                          ELSE primaryStats.placed) > 0,
           solution  |-> primarySolution.sol,
           solutions |-> allSolutions,
           message   |-> [text |-> "Placed",
                          warning |-> CASE method = "greedy" -> " (greedy fallback)"
                                        [] method = "backtrack-partial" ->
                                               " (search limit reached)"
                                        [] OTHER -> ""],
           stats     |-> IF primarySolution.isNull
                         THEN calculateSolutionStats(<<>>, Len(selectedPieces))
                         ELSE primaryStats]
    /\ pc' = "done"
    /\ UNCHANGED <<inputVars, searchVars, occupiedCells, iterationCounter,
                   localVars, strategyVars, permuteVars, callVars>>
    /\ UNCHANGED appVars


\* updateSolutionDropdown(solutions): the options of the solution select,
\* one per entry in list order with the first one selected, or the single
\* placeholder option of a disabled select when the list is empty
updateSolutionDropdown(solutions) ==
    IF Len(solutions) = 0
    THEN [options  |-> <<[value |-> "", selected |-> FALSE]>>,
          disabled |-> TRUE]
    ELSE [options  |-> [index \in 1..Len(solutions) |->
                           [value    |-> solutions[index].id,
                            selected |-> index = 1]],
          disabled |-> Len(solutions) <= 1]
\* ------------------------------------------------------------------------
\* solve, generation "permute" (part_007:816-1177)
\* The placement records of this generation carry no priorityId; the model
\* keeps the field and it repeats the id.
\* ------------------------------------------------------------------------

\* getPermutations returns every ordering only up to this length
PermutationLimit == 8

\* findBestSolution tries orderings only up to this length
OrderingLimit == 10

\* number of shuffled orderings getPermutations adds to a long list
ShuffleCount == 5

Reversed(arr) == [k \in 1..Len(arr) |-> arr[Len(arr) + 1 - k]]

RemoveAt(seq, i) == SubSeq(seq, 1, i - 1) \o SubSeq(seq, i + 1, Len(seq))

\* the inner function permute(current, remaining), and its for loop from i
RECURSIVE permute(_, _), permuteFrom(_, _, _)
permute(current, rest) ==
    IF Len(rest) = 0 THEN <<current>> ELSE permuteFrom(current, rest, 1)

permuteFrom(current, rest, i) ==
    IF i > Len(rest) THEN <<>>
    ELSE permute(Append(current, rest[i]), RemoveAt(rest, i))
           \o permuteFrom(current, rest, i + 1)

\* the test with the limit applied to the wrong length
LongListOverOne(arr) == Len(arr) > 1

\* if (arr.length > 8): too many permutations
LongList(arr) == Len(arr) > PermutationLimit

\* the orderings getPermutations computes without Math.random; for a long
\* list ShuffleCount shuffled orderings follow these two
getPermutations(arr) ==
    IF Len(arr) <= 1 THEN <<arr>>
    ELSE IF LongList(arr) THEN <<arr, Reversed(arr)>>
    ELSE permute(<<>>, arr)

Shuffles(arr) == IF Len(arr) > 1 /\ LongList(arr) THEN ShuffleCount ELSE 0

\* the loops of findBestSolution over one ordering: each piece takes the
\* first (rotation, row, col) that canPlace accepts
RECURSIVE FirstFitPass(_, _, _)
FirstFitNext(rest, p, placed) ==
    FirstFitPass(rest, p.occupied,
                 IF p.isNull THEN placed ELSE Append(placed, p.placement))

FirstFitPass(list, occupied, placed) ==
    IF list = <<>> THEN [placements |-> placed, occupied |-> occupied]
    ELSE FirstFitNext(Tail(list), tryPlacePieceNoPriority(list[1], occupied), placed)

totalPieceCells ==
    LET RECURSIVE Sum(_)
        Sum(list) == IF list = <<>> THEN 0
                     ELSE countCells(list[1].shape) + Sum(Tail(list))
    IN  Sum(selectedPieces)

\* requireAll && totalPieceCells > poweredCount
PermuteRejectCells ==
    /\ version = "permute"
    /\ InputAccepted
    /\ requireAll
    /\ totalPieceCells > poweredCount
    /\ result' = Failure("Selected pieces need more cells than are powered")
    /\ pc' = "done"
    /\ UNCHANGED <<inputVars, searchVars, occupiedCells, iterationCounter,
                   localVars, strategyVars, permuteVars, callVars>>
    /\ UNCHANGED appVars

\* requireAll: backtrack(selectedPieces, 0, ..., [], true)
PermuteBeginBacktrack ==
    /\ version = "permute"
    /\ InputAccepted
    /\ requireAll
    /\ totalPieceCells <= poweredCount
    /\ occupiedCells' = {}
    /\ BeginSearch("backtrack", selectedPieces)
    /\ pc' = "backtrack"
    /\ UNCHANGED <<inputVars, iterationCounter, localVars, strategyVars,
                   permuteVars, result, callVars>>
    /\ UNCHANGED appVars

\* solution === null
PermuteBacktrackNull ==
    /\ version = "permute"
    /\ pc = "backtrack"
    /\ SearchReturned
    /\ retval.isNull
    /\ result' = Failure("No solution found - pieces cannot all fit on the powered cells")
    /\ SearchIdle
    /\ pc' = "done"
    /\ UNCHANGED <<inputVars, pieces, occupiedCells, iterationCounter, localVars,
                   strategyVars, permuteVars, callVars>>
    /\ UNCHANGED appVars

PermuteBacktrackFound ==
    /\ version = "permute"
    /\ pc = "backtrack"
    /\ SearchReturned
    /\ ~retval.isNull
    /\ solution' = retval.sol
    /\ SearchIdle
    /\ pc' = "coverage"
    /\ UNCHANGED <<inputVars, pieces, occupiedCells, iterationCounter,
                   timeoutWarning, greedyIdx, mandatoryFailed, strategyVars,
                   permuteVars, result, callVars>>
    /\ UNCHANGED appVars

\* the start of one ordering: a new occupancy set and placements list
NewOrdering ==
    /\ occupiedCells' = {}
    /\ solution' = <<>>
    /\ remaining' = 1..Len(selectedPieces)

\* !requireAll: findBestSolution; a list longer than OrderingLimit gets the
\* single greedy pass over the sorted list
PermuteBeginBest ==
    /\ version = "permute"
    /\ InputAccepted
    /\ ~requireAll
    /\ pieces' = SortedDescending(selectedPieces)
    /\ bestCoverage' = 0
    /\ permIdx' = 0
    /\ NewOrdering
    /\ IF Len(selectedPieces) <= OrderingLimit
       THEN /\ bestSolution' = <<>>
            /\ pc' = "orderings"
       ELSE /\ bestSolution' =
                   FirstFitPass(SortedDescending(selectedPieces), {}, <<>>).placements
            /\ pc' = "best"
    /\ UNCHANGED <<inputVars, mode, ctl, callIdx, retval, stack, placements,
                   iterationCounter, timeoutWarning, greedyIdx, mandatoryFailed,
                   strategyVars, result, callVars>>
    /\ UNCHANGED appVars

\* if (coverage > bestCoverage) { bestCoverage = coverage; bestSolution = ... }
KeepBetter(pass) ==
    /\ bestCoverage' = IF Cardinality(pass.occupied) > bestCoverage
                       THEN Cardinality(pass.occupied) ELSE bestCoverage
    /\ bestSolution' = IF Cardinality(pass.occupied) > bestCoverage
                       THEN pass.placements ELSE bestSolution

\* one iteration of  for (const perm of permutations)  over an ordering that
\* getPermutations computed without Math.random
PermuteTryOrdering ==
    /\ version = "permute"
    /\ pc = "orderings"
    /\ permIdx < Len(getPermutations(pieces))
    /\ KeepBetter(FirstFitPass(getPermutations(pieces)[permIdx + 1], {}, <<>>))
    /\ permIdx' = permIdx + 1
    /\ NewOrdering
    /\ UNCHANGED <<inputVars, searchVars, iterationCounter, pc, timeoutWarning,
                   greedyIdx, mandatoryFailed, strategyVars, result, callVars>>
    /\ UNCHANGED appVars

\* the pieces of a shuffled ordering not visited yet that canPlace accepts
\* somewhere on the present occupancy
FitsNow(k) ==
    ~tryPlacePieceNoPriority(pieces[k], occupiedCells).isNull

\* [...arr].sort(() => Math.random() - 0.5): the comparator answers at
\* random, so the ordering is any permutation of the list.  The ordering is
\* revealed as the pass walks it: the next piece that gets placed is any
\* piece not visited yet that fits; a piece visited while it does not fit
\* changes nothing, and it cannot fit later since cells are only added.
PermuteShufflePlace ==
    /\ version = "permute"
    /\ pc = "orderings"
    /\ permIdx >= Len(getPermutations(pieces))
    /\ permIdx < Len(getPermutations(pieces)) + Shuffles(pieces)
    /\ \E k \in remaining :
          /\ FitsNow(k)
          /\ PushPlacement(tryPlacePieceNoPriority(pieces[k], occupiedCells))
          /\ remaining' = remaining \ {k}
    /\ UNCHANGED <<inputVars, searchVars, iterationCounter, pc, timeoutWarning,
                   greedyIdx, mandatoryFailed, strategyVars, permIdx, bestSolution,
                   bestCoverage, result, callVars>>
    /\ UNCHANGED appVars

\* the shuffled ordering is exhausted: no piece left in it fits
PermuteShuffleEnd ==
    /\ version = "permute"
    /\ pc = "orderings"
    /\ permIdx >= Len(getPermutations(pieces))
    /\ permIdx < Len(getPermutations(pieces)) + Shuffles(pieces)
    /\ \A k \in remaining : ~FitsNow(k)
    /\ KeepBetter([placements |-> solution, occupied |-> occupiedCells])
    /\ permIdx' = permIdx + 1
    /\ NewOrdering
    /\ UNCHANGED <<inputVars, searchVars, iterationCounter, pc, timeoutWarning,
                   greedyIdx, mandatoryFailed, strategyVars, result, callVars>>
    /\ UNCHANGED appVars

\* return bestSolution
PermuteOrderingsDone ==
    /\ version = "permute"
    /\ pc = "orderings"
    /\ permIdx >= Len(getPermutations(pieces)) + Shuffles(pieces)
    /\ pc' = "best"
    /\ UNCHANGED <<inputVars, searchVars, occupiedCells, iterationCounter,
                   localVars, strategyVars, permuteVars, result, callVars>>
    /\ UNCHANGED appVars

\* solution = findBestSolution(...)
PermuteBestReturned ==
    /\ version = "permute"
    /\ pc = "best"
    /\ solution' = bestSolution
    /\ pc' = "coverage"
    /\ UNCHANGED <<inputVars, searchVars, occupiedCells, iterationCounter,
                   timeoutWarning, greedyIdx, mandatoryFailed, strategyVars,
                   permuteVars, result, callVars>>
    /\ UNCHANGED appVars

\* coverage and the returned object
PermuteFinish ==
    /\ version = "permute"
    /\ pc = "coverage"
    /\ result' =
          [kind     |-> "solved",
           success  |-> TRUE,
           solution |-> solution,
           message  |-> [text |-> "Placed",
                         piecesPlaced |-> Len(solution),
                         totalPieces  |-> Len(selectedPieces),
                         coveredCells |-> SumCells(solution),
                         poweredCount |-> poweredCount]]
    /\ pc' = "done"
    /\ UNCHANGED <<inputVars, searchVars, occupiedCells, iterationCounter,
                   localVars, strategyVars, permuteVars, callVars>>
    /\ UNCHANGED appVars

\* ------------------------------------------------------------------------
\* A second call of solve with the same arguments
\* ------------------------------------------------------------------------

\* the caller keeps the first result and calls solve again
SolveAgain ==
    /\ pc = "done"
    /\ callNo = 1
    /\ callNo' = 2
    /\ prevResult' = result
    /\ pc' = "start"
    /\ pieces' = <<>>
    /\ SearchIdle
    /\ occupiedCells' = {}
    /\ iterationCounter' = [count |-> 0, exceeded |-> FALSE]
    /\ solution' = <<>>
    /\ timeoutWarning' = ""
    /\ greedyIdx' = 0
    /\ mandatoryFailed' = FALSE
    /\ strategy' = 0
    /\ bestFitSolution' = <<>>
    /\ allSolutions' = <<>>
    /\ primarySolution' = Null
    /\ primaryStats' = NoStats
    /\ method' = "backtrack"
    /\ foundMethod' = "backtrack"
    /\ permIdx' = 0
    /\ remaining' = {}
    /\ bestSolution' = <<>>
    /\ bestCoverage' = 0
    /\ result' = NoResult
    /\ budgetHit' = {}
    /\ UNCHANGED inputVars
    /\ UNCHANGED appVars


\* ------------------------------------------------------------------------
\* Rotating a shape (components.js)
\* ------------------------------------------------------------------------

\* longest side of a shape mask handed to the rotation
MaxShapeSide == 3

\* every rectangular 0/1 mask with at least one row and one column
Masks ==
    UNION {[1..rows -> [1..cols -> {0, 1}]] :
              rows \in 1..MaxShapeSide, cols \in 1..MaxShapeSide}

\* the solver at rest: no list, an unpowered grid, no call in progress
SolverIdle ==
    /\ version = "strategies"
    /\ gridSize = GridSize
    /\ selectedPieces = <<>>
    /\ gridState = MakeGrid("strategies", <<>>, GridSize)
    /\ requireAll = FALSE
    /\ Fresh
    /\ callNo = 1
    /\ prevResult = NoResult

\* const rotations = [shape]
InitRotate ==
    /\ SolverIdle
    /\ \E mask \in Masks : rotations = <<mask>>
    /\ queried = NoQuery
    /\ BuildsIdle

\* current = rotateShape(current); rotations.push(current): getAllRotations
\* stops after three rotations, the step here is taken once more
RotateStep ==
    /\ Len(rotations) \in 1..4
    /\ rotations' = Append(rotations, rotateShape(rotations[Len(rotations)]))
    /\ UNCHANGED <<inputVars, solverVars, queried, buildVars>>

NextRotate == RotateStep

SpecRotate == InitRotate /\ [][NextRotate]_vars

\* ------------------------------------------------------------------------
\* The grid model (grid.js); its gridState is the array handed to solve
\* ------------------------------------------------------------------------

\* rows and columns of the calls: one below and one above the grid included
Coordinates == (-1)..GridSize

\* the cells the user edits
EditedCells == WindowCells \cup {<<-1, 0>>, <<0, GridSize>>}

getCellValue(row, col) ==
    IF row >= 0 /\ row < gridSize /\ col >= 0 /\ col < gridSize
    THEN gridState[row][col]
    ELSE 0

isCellPowered(row, col) ==
    LET value == getCellValue(row, col)
    IN  value = 0 \/ value = 1

isCellProtected(row, col) == getCellValue(row, col) = 1

\* createEmptyGrid: every cell blocked
InitGrid ==
    /\ SolverIdle
    /\ rotations = <<>>
    /\ queried = NoQuery
    /\ BuildsIdle

\* 4 -> 0 -> 1 -> 4 on a cell of the grid, nothing outside it
toggleCell(row, col) ==
    /\ gridState' =
          IF row >= 0 /\ row < gridSize /\ col >= 0 /\ col < gridSize
          THEN [gridState EXCEPT ![row][col] =
                   CASE gridState[row][col] = 4 -> 0
                     [] gridState[row][col] = 0 -> 1
                     [] OTHER -> 4]
          ELSE gridState
    /\ queried' = NoQuery
    /\ UNCHANGED <<version, selectedPieces, gridSize, requireAll, solverVars,
                   rotations, buildVars>>

setCell(row, col, value) ==
    /\ gridState' =
          IF row >= 0 /\ row < gridSize /\ col >= 0 /\ col < gridSize
          THEN [gridState EXCEPT ![row][col] = value]
          ELSE gridState
    /\ queried' = NoQuery
    /\ UNCHANGED <<version, selectedPieces, gridSize, requireAll, solverVars,
                   rotations, buildVars>>

ToggleCell == \E rc \in EditedCells : toggleCell(rc[1], rc[2])

SetCell == \E rc \in EditedCells, value \in {0, 1, 4} : setCell(rc[1], rc[2], value)

\* a caller asks isCellPowered and isCellProtected about a cell
QueryCell ==
    \E row \in Coordinates, col \in Coordinates :
        /\ queried' = [kind      |-> "cell",
                       row       |-> row,
                       col       |-> col,
                       powered   |-> isCellPowered(row, col),
                       protected |-> isCellProtected(row, col)]
        /\ UNCHANGED <<inputVars, solverVars, rotations, buildVars>>

NextGrid == ToggleCell \/ SetCell \/ QueryCell

SpecGrid == InitGrid /\ [][NextGrid]_vars

\* ------------------------------------------------------------------------
\* Builds (builds.js).  The time stamps createdAt, updatedAt and savedAt are
\* written and never read by these functions; they are left out.
\* ------------------------------------------------------------------------

\* number of ids generateId hands out
MaxBuilds == 2

BuildNames == {"alpha", "beta"}

BuildIds == 1..MaxBuilds

\* what a call returned: op, a boolean or a state (or null)
Returns(op, ok, isNull, state) ==
    [op |-> op, ok |-> ok, isNull |-> isNull, state |-> state]

\* builds.findIndex(b => b.id === id), 0 when there is none
findIndex(builds, id) ==
    IF \E k \in 1..Len(builds) : builds[k].id = id
    THEN CHOOSE k \in 1..Len(builds) :
             builds[k].id = id /\ \A j \in 1..(k - 1) : builds[j].id # id
    ELSE 0

\* the build as JSON.stringify writes it into the builds list
Stored(build) ==
    [id |-> build.id, name |-> build.name, isSaved |-> build.isSaved,
     state |-> JSONparse(JSONstringify(build.state))]

\* builds[existingIndex] = currentBuild, or builds.push(currentBuild)
putBuild(builds, build) ==
    IF findIndex(builds, build.id) # 0
    THEN [builds EXCEPT ![findIndex(builds, build.id)] = Stored(build)]
    ELSE Append(builds, Stored(build))

createUnnamedBuild(initialState) ==
    /\ nextId <= MaxBuilds
    /\ currentBuild' = [isNull |-> FALSE, id |-> nextId, name |-> NoName,
                        isSaved |-> FALSE, state |-> initialState]
    /\ nextId' = nextId + 1
    /\ lastSavedState' = NoText
    /\ storage' = [storage EXCEPT !.current = nextId]
    /\ saved' = NothingSaved

CreateUnnamedBuild ==
    \E state \in BuildStates :
        /\ createUnnamedBuild(state)
        /\ called' = Returns("createUnnamedBuild", TRUE, TRUE, BlankState)
        /\ UNCHANGED <<inputVars, solverVars, rotations, queried>>

saveBuild(name, state) ==
    /\ currentBuild.isNull => nextId <= MaxBuilds
    /\ currentBuild' =
          [isNull |-> FALSE,
           id |-> IF currentBuild.isNull THEN nextId ELSE currentBuild.id,
           name |-> name, isSaved |-> TRUE, state |-> state]
    /\ nextId' = IF currentBuild.isNull THEN nextId + 1 ELSE nextId
    /\ storage' = [builds  |-> putBuild(storage.builds, currentBuild'),
                   current |-> currentBuild'.id]
    /\ lastSavedState' = JSONstringify(state)
    /\ saved' = [kind |-> "saved", state |-> state]

SaveBuild ==
    \E name \in BuildNames, state \in BuildStates :
        /\ saveBuild(name, state)
        /\ called' = Returns("saveBuild", TRUE, FALSE, state)
        /\ UNCHANGED <<inputVars, solverVars, rotations, queried>>

\* quickSave: false for no build or an unnamed build
QuickSave ==
    \E state \in BuildStates :
        /\ IF currentBuild.isNull \/ currentBuild.name = NoName
           THEN /\ called' = Returns("quickSave", FALSE, TRUE, BlankState)
                /\ UNCHANGED <<currentBuild, lastSavedState, storage, saved>>
           ELSE /\ currentBuild' = [currentBuild EXCEPT !.state = state]
                /\ storage' =
                      IF findIndex(storage.builds, currentBuild.id) # 0
                      THEN [storage EXCEPT !.builds =
                               putBuild(storage.builds, currentBuild')]
                      ELSE storage
                /\ lastSavedState' = JSONstringify(state)
                /\ saved' = [kind |-> "saved", state |-> state]
                /\ called' = Returns("quickSave", TRUE, TRUE, BlankState)
        /\ UNCHANGED <<inputVars, solverVars, rotations, queried, nextId>>

\* quickLoad handing back the state of the current build
QuickLoadCurrent ==
    /\ IF currentBuild.isNull \/ lastSavedState.isNull
       THEN called' = Returns("quickLoad", FALSE, TRUE, BlankState)
       ELSE called' = Returns("quickLoad", TRUE, FALSE, currentBuild.state)
    /\ UNCHANGED <<inputVars, solverVars, rotations, queried, currentBuild,
                   lastSavedState, storage, nextId, saved>>

\* quickLoad: null for no build or no saved state
QuickLoad ==
    /\ IF currentBuild.isNull \/ lastSavedState.isNull
       THEN /\ called' = Returns("quickLoad", FALSE, TRUE, BlankState)
            /\ UNCHANGED currentBuild
       ELSE /\ currentBuild' = [currentBuild EXCEPT !.state = JSONparse(lastSavedState)]
            /\ called' = Returns("quickLoad", TRUE, FALSE, currentBuild'.state)
    /\ UNCHANGED <<inputVars, solverVars, rotations, queried, lastSavedState,
                   storage, nextId, saved>>

LoadBuild ==
    \E buildId \in BuildIds :
        /\ IF findIndex(storage.builds, buildId) = 0
           THEN /\ called' = Returns("loadBuild", FALSE, TRUE, BlankState)
                /\ UNCHANGED <<currentBuild, lastSavedState, storage, saved>>
           ELSE LET build == storage.builds[findIndex(storage.builds, buildId)]
                IN  /\ currentBuild' = [isNull |-> FALSE, id |-> build.id,
                                        name |-> build.name, isSaved |-> build.isSaved,
                                        state |-> build.state]
                    /\ lastSavedState' = JSONstringify(build.state)
                    /\ storage' = [storage EXCEPT !.current = buildId]
                    /\ saved' = [kind |-> "other", state |-> build.state]
                    /\ called' = Returns("loadBuild", TRUE, FALSE, build.state)
        /\ UNCHANGED <<inputVars, solverVars, rotations, queried, nextId>>

\* builds.splice(index, 1)
RemoveAtIndex(builds, index) ==
    [k \in 1..(Len(builds) - 1) |-> IF k < index THEN builds[k] ELSE builds[k + 1]]

DeleteBuild ==
    \E buildId \in BuildIds :
        /\ IF findIndex(storage.builds, buildId) = 0
           THEN /\ called' = Returns("deleteBuild", FALSE, TRUE, BlankState)
                /\ UNCHANGED <<currentBuild, lastSavedState, storage, saved>>
           ELSE /\ called' = Returns("deleteBuild", TRUE, TRUE, BlankState)
                /\ IF ~currentBuild.isNull /\ currentBuild.id = buildId
                   THEN /\ currentBuild' = NoBuild
                        /\ lastSavedState' = NoText
                        /\ saved' = NothingSaved
                        /\ storage' =
                              [builds  |-> RemoveAtIndex(storage.builds,
                                               findIndex(storage.builds, buildId)),
                               current |-> 0]
                   ELSE /\ storage' =
                              [storage EXCEPT !.builds =
                                  RemoveAtIndex(storage.builds,
                                                findIndex(storage.builds, buildId))]
                        /\ UNCHANGED <<currentBuild, lastSavedState, saved>>
        /\ UNCHANGED <<inputVars, solverVars, rotations, queried, nextId>>

DeleteCurrentUnsaved ==
    /\ IF ~currentBuild.isNull /\ ~currentBuild.isSaved
       THEN /\ currentBuild' = NoBuild
            /\ lastSavedState' = NoText
            /\ saved' = NothingSaved
            /\ storage' = [storage EXCEPT !.current = 0]
       ELSE UNCHANGED <<currentBuild, lastSavedState, storage, saved>>
    /\ called' = Returns("deleteCurrentUnsaved", TRUE, TRUE, BlankState)
    /\ UNCHANGED <<inputVars, solverVars, rotations, queried, nextId>>

RenameBuild ==
    \E buildId \in BuildIds, newName \in BuildNames :
        /\ IF findIndex(storage.builds, buildId) = 0
           THEN /\ called' = Returns("renameBuild", FALSE, TRUE, BlankState)
                /\ UNCHANGED <<currentBuild, storage>>
           ELSE /\ storage' =
                      [storage EXCEPT
                          !.builds[findIndex(storage.builds, buildId)].name = newName]
                /\ currentBuild' =
                      IF ~currentBuild.isNull /\ currentBuild.id = buildId
                      THEN [currentBuild EXCEPT !.name = newName]
                      ELSE currentBuild
                /\ called' = Returns("renameBuild", TRUE, TRUE, BlankState)
        /\ UNCHANGED <<inputVars, solverVars, rotations, queried, lastSavedState,
                       nextId, saved>>

\* updateCurrentState: createUnnamedBuild when there is no current build
UpdateCurrentState ==
    \E state \in BuildStates :
        /\ IF currentBuild.isNull
           THEN createUnnamedBuild(state)
           ELSE /\ currentBuild' = [currentBuild EXCEPT !.state = state]
                /\ UNCHANGED <<lastSavedState, storage, nextId, saved>>
        /\ called' = Returns("updateCurrentState", TRUE, TRUE, BlankState)
        /\ UNCHANGED <<inputVars, solverVars, rotations, queried>>

\* the page is loaded again: the module variables start from null and
\* initBuilds looks the current build up in localStorage
InitBuilds ==
    /\ IF findIndex(storage.builds, storage.current) # 0
       THEN LET build == storage.builds[findIndex(storage.builds, storage.current)]
            IN  /\ currentBuild' = [isNull |-> FALSE, id |-> build.id,
                                    name |-> build.name, isSaved |-> build.isSaved,
                                    state |-> build.state]
                /\ lastSavedState' = JSONstringify(build.state)
                /\ saved' = [kind |-> "other", state |-> build.state]
       ELSE /\ currentBuild' = NoBuild
            /\ lastSavedState' = NoText
            /\ saved' = NothingSaved
    /\ called' = Returns("initBuilds", TRUE, TRUE, BlankState)
    /\ UNCHANGED <<inputVars, solverVars, rotations, queried, storage, nextId>>

InitBuildsSpec ==
    /\ SolverIdle
    /\ AppIdle

NextBuilds ==
    \/ CreateUnnamedBuild
    \/ SaveBuild
    \/ QuickSave
    \/ QuickLoad
    \/ LoadBuild
    \/ DeleteBuild
    \/ DeleteCurrentUnsaved
    \/ RenameBuild
    \/ UpdateCurrentState
    \/ InitBuilds

SpecBuilds == InitBuildsSpec /\ [][NextBuilds]_vars
\* ------------------------------------------------------------------------
\* Properties
\* ------------------------------------------------------------------------

\* the state of a grid cell, read off the encoding of the generation
CellStateAt(rc) ==
    LET value == gridState[rc[1]][rc[2]]
    IN  CASE version \in {"priority", "mandatory"} ->
                (CASE value = 1 -> "powered" [] value = 2 -> "protected"
                   [] OTHER -> "blocked")
          [] version = "strategies" ->
                (CASE value = 0 -> "powered" [] value = 1 -> "protected"
                   [] OTHER -> "blocked")
          [] OTHER -> (IF value = TRUE THEN "powered" ELSE "blocked")

Returned == pc = "done" /\ result.kind \in {"solved", "failed"}

\* every solution the returned object carries
ReturnedSolutions ==
    IF ~Returned THEN {}
    ELSE {result.solution}
           \cup (IF version = "strategies"
                 THEN {result.solutions[k].solution : k \in 1..Len(result.solutions)}
                 ELSE {})

CellsOf(placement) == Range(placement.cells)

\* the instance a placement belongs to
InstanceOf(placement) ==
    CHOOSE p \in Range(selectedPieces) : p.id = placement.pieceId

NoOverlap(sol) ==
    \A a, b \in 1..Len(sol) : a # b => CellsOf(sol[a]) \cap CellsOf(sol[b]) = {}

\* C1: in every solution that solve returns (the primary solution and every
\* entry of the list of the multi-strategy solve), no cell belongs to the
\* occupied cells of two different placements, and no placement lists a
\* cell twice; while a greedy loop runs, the placements made so far are
\* pairwise disjoint as well.
C1_NoOverlap ==
    /\ \A sol \in ReturnedSolutions :
          /\ NoOverlap(sol)
          /\ \A k \in 1..Len(sol) :
                Cardinality(CellsOf(sol[k])) = Len(sol[k].cells)
    /\ pc \in {"phase3", "greedyAll", "mandatoryGreedy", "optional", "greedy"}
          => NoOverlap(solution)

\* the greedy pass over optional instances returned two placements
C1_Witness ==
    /\ Returned
    /\ version = "mandatory"
    /\ result.kind = "solved"
    /\ result.stats.totalMandatory = 0
    /\ Len(result.solution) >= 2

\* C2: every occupied cell of every placement of every returned solution is
\* inside the grid and lies on a cell that is Powered or Protected.
C2_InBoundsAndPowered ==
    \A sol \in ReturnedSolutions : \A k \in 1..Len(sol) :
        \A rc \in CellsOf(sol[k]) :
            /\ rc[1] >= 0 /\ rc[1] < gridSize
            /\ rc[2] >= 0 /\ rc[2] < gridSize
            /\ CellStateAt(rc) \in {"powered", "protected"}

\* a returned solution beside Blocked cells: something is placed while some
\* cell of the window is Blocked
C2_Witness ==
    /\ Returned
    /\ Len(result.solution) >= 1
    /\ CellStateAt(<<0, 0>>) = "blocked"

MAX_MANDATORY_PIECES == 8

\* C4: with more mandatory instances than the cap, no search is started, no
\* candidate is committed, and solve returns a rejection without placements.
C4_OverCapRejected ==
    (version = "mandatory" /\ Len(mandatoryPieces) > MAX_MANDATORY_PIECES) =>
        /\ mode = "none"
        /\ occupiedCells = {}
        /\ Returned => (result.kind = "failed" /\ result.solution = <<>>)

\* C5: with an empty list, or with no Powered or Protected cell on the grid,
\* solve attempts no placement and returns a failure: success false, no
\* placements, a message.
C5_InputRejected ==
    (Len(selectedPieces) = 0
        \/ \A rc \in AllCells(gridSize) : CellStateAt(rc) = "blocked") =>
        /\ pc \in {"start", "done"}
        /\ mode = "none"
        /\ occupiedCells = {}
        /\ solution = <<>>
        /\ Returned => /\ result.kind = "failed"
                       /\ result.success = FALSE
                       /\ result.solution = <<>>
                       /\ result.message \in {"No components selected",
                                              "No pieces selected",
                                              "No powered cells on the grid"}

\* instances were selected, no cell is powered, and solve has returned
C5_Witness ==
    /\ Returned
    /\ Len(selectedPieces) > 0
    /\ \A rc \in AllCells(gridSize) : CellStateAt(rc) = "blocked"
    /\ result.message = "No powered cells on the grid"

\* the cell sets an instance can cover on the bare grid: any rotation, any
\* origin, every cell inside the grid and Powered or Protected
Options(piece) ==
    {cs \in {Range(getOccupiedCells(getAllRotations(piece.shape)[rot], rc[1], rc[2])) :
                rot \in 1..4, rc \in AllCells(gridSize)} :
        \A cell \in cs : InGrid(cell, gridSize) /\ CellStateAt(cell) # "blocked"}

RECURSIVE JointlyPlaceable(_, _)
JointlyPlaceable(list, occupied) ==
    \/ list = <<>>
    \/ \E cs \in Options(list[1]) :
          /\ cs \cap occupied = {}
          /\ JointlyPlaceable(Tail(list), occupied \cup cs)

Placed(sol, piece) == \E k \in 1..Len(sol) : sol[k].pieceId = piece.id

\* C6: when the mandatory instances can all be placed at once, the solution
\* that solve returns places every one of them, and the statistics say so.
C6_MandatoryAllPlaced ==
    (/\ version = "mandatory"
     /\ Returned
     /\ \E k \in 1..Len(selectedPieces) : selectedPieces[k].mandatory
     /\ JointlyPlaceable(SelectSeq(selectedPieces, LAMBDA p : p.mandatory), {})) =>
        /\ result.kind = "solved"
        /\ \A k \in 1..Len(selectedPieces) :
              selectedPieces[k].mandatory => Placed(result.solution, selectedPieces[k])
        /\ result.stats.mandatoryPlaced = result.stats.totalMandatory

\* two mandatory instances are placed, the first of them not on its first
\* candidate: cell (0,0) is Powered and stays free of it
C6_Witness ==
    /\ version = "mandatory"
    /\ Returned
    /\ result.kind = "solved"
    /\ result.stats.totalMandatory = 2
    /\ result.stats.mandatoryPlaced = 2
    /\ CellStateAt(<<0, 0>>) = "powered"
    /\ CellStateAt(<<0, 1>>) = "powered"
    /\ <<0, 0>> \notin CellsOf(result.solution[1])

\* C7: a strict search that returns a solution returns one placement for
\* each instance of its list, in the order of the list, and no instance id
\* twice.
C7_StrictComplete ==
    (/\ mode \in {"strict", "strictNoPriority"}
     /\ SearchReturned
     /\ ~retval.isNull) =>
        /\ Len(retval.sol) = Len(pieces)
        /\ \A k \in 1..Len(retval.sol) : retval.sol[k].pieceId = pieces[k].id
        /\ \A a, b \in 1..Len(retval.sol) :
              a # b => retval.sol[a].pieceId # retval.sol[b].pieceId

\* backtrackStrict has returned a solution for two instances or more
C7_Witness ==
    /\ mode = "strict"
    /\ SearchReturned
    /\ ~retval.isNull
    /\ Len(pieces) >= 2

\* C8: when a search phase of the call ran out of budget, the result that
\* solve returns says so.
C8_BudgetFlagged ==
    (Returned /\ result.kind = "solved" /\ budgetHit # {}) =>
        result.message.warning # ""

Fits(piece, occupied) == \E cs \in Options(piece) : cs \cap occupied = {}

\* the cells of the placements of sol whose instance comes before position k
CellsBefore(order, k, sol) ==
    UNION {CellsOf(sol[j]) : j \in {i \in 1..Len(sol) :
              \E h \in 1..(k - 1) : order[h].id = sol[i].pieceId}}

\* every instance of order without a placement had no candidate at its turn
SkippedOnlyWithoutCandidate(order, sol) ==
    \A k \in 1..Len(order) :
        ~Placed(sol, order[k]) => ~Fits(order[k], CellsBefore(order, k, sol))

\* the order in which the call that returned result.solution visited the
\* instances; the "permute" generation explores orderings, and there an
\* instance was skipped at some turn exactly if it does not fit at the end
TurnOrder ==
    CASE version = "priority"   -> selectedPieces
      [] version = "mandatory"  -> mandatoryPieces \o optionalPieces
      [] version = "strategies" ->
            (IF bestFitSolution # <<>> THEN StrategyPieces(1) ELSE StrategyPieces(2))
      [] OTHER -> <<>>

NoAbort ==
    IF version = "permute"
    THEN \A k \in 1..Len(selectedPieces) :
             ~Placed(result.solution, selectedPieces[k]) =>
                 ~Fits(selectedPieces[k],
                       UNION {CellsOf(result.solution[j]) :
                                 j \in 1..Len(result.solution)})
    ELSE SkippedOnlyWithoutCandidate(TurnOrder, result.solution)

\* C10 as the claim states it: in what solve returns, an instance without a
\* placement had no feasible candidate at its turn.
C10_NoAbort == Returned => NoAbort

\* C10, amended: the same, except when the "permute" generation is asked to
\* place all pieces (requireAll), where one instance that cannot be placed
\* makes solve return a failure without placements.
C10_NoAbortUnlessRequireAll ==
    (Returned /\ ~(version = "permute" /\ requireAll)) => NoAbort

\* an instance that fits nowhere got no placement and a later one is placed
C10_Witness ==
    /\ Returned
    /\ ~(version = "permute" /\ requireAll)
    /\ Len(selectedPieces) = 2
    /\ Options(selectedPieces[1]) = {}
    /\ ~Placed(result.solution, selectedPieces[1])
    /\ Placed(result.solution, selectedPieces[2])


\* the scenario of C11: one Protected cell at (0,0), every other cell
\* Powered, three single-cell instances of which exactly one is flagged
CornerScenario ==
    /\ \A rc \in AllCells(gridSize) :
          CellStateAt(rc) = (IF rc = <<0, 0>> THEN "protected" ELSE "powered")
    /\ Len(selectedPieces) = 3
    /\ \A k \in 1..3 : selectedPieces[k].shape = Mono
    /\ Cardinality({k \in 1..3 : selectedPieces[k].protect}) = 1

\* the cells of the placement of an instance in a solution
CellsOfInstance(sol, piece) ==
    UNION {CellsOf(sol[k]) : k \in {j \in 1..Len(sol) : sol[j].pieceId = piece.id}}

OccupiedPairs(sol) ==
    UNION {{<<k, j>> : j \in 1..Len(sol[k].cells)} : k \in 1..Len(sol)}

\* the statistics st describe the solution sol and respect their totals
StatsAgree(st, sol) ==
    /\ st.placed = Len(sol)
    /\ st.total = Len(selectedPieces)
    /\ st.placed <= st.total
    /\ st.coveredCells = Cardinality(OccupiedPairs(sol))
    /\ st.coveredCells <= st.poweredCount
    /\ st.coveredProtected =
          Cardinality({kj \in OccupiedPairs(sol) :
              CellStateAt(sol[kj[1]].cells[kj[2]]) = "protected"})
    /\ st.coveredProtected <= st.protectedCount

\* the results that carry stats: every result of a search in the
\* generations that count Protected cells
CarriesStats == Returned /\ result.kind = "solved" /\ version # "permute"

\* C12: in every result that carries stats, and in every entry of the list
\* of the multi-strategy solve, placed is the number of placements and at
\* most total, coveredCells is the number of occupied cells and at most
\* poweredCount, coveredProtected is the number of occupied Protected cells
\* and at most protectedCount.
C12_StatsAgree ==
    CarriesStats =>
        /\ StatsAgree(result.stats, result.solution)
        /\ version = "strategies" =>
              \A k \in 1..Len(result.solutions) :
                  StatsAgree(result.solutions[k].stats, result.solutions[k].solution)

\* a result with an unplaced instance, two covered cells or more, one of
\* them Protected and one not
C12_Witness ==
    /\ CarriesStats
    /\ result.stats.placed < result.stats.total
    /\ result.stats.coveredCells >= 2
    /\ result.stats.coveredProtected >= 1
    /\ result.stats.coveredProtected < result.stats.coveredCells

\* what a solution places: each placed instance id with its set of occupied
\* cells (rotation labels and the order of the placements left out)
PlacedCells(sol) == {<<sol[k].pieceId, CellsOf(sol[k])>> : k \in 1..Len(sol)}

SameSolution(sol1, sol2) == PlacedCells(sol1) = PlacedCells(sol2)

\* the solutions the deduplication of the running call has compared or
\* will compare: the entries of the list and the result of strategy 1
Compared ==
    {allSolutions[k].solution : k \in 1..Len(allSolutions)} \cup {bestFitSolution}

\* C13: the list of the multi-strategy solve never holds two entries that
\* place the same instance ids on the same cells, and on the solutions a
\* call compares, solutionsEqual is that equality and gives the same answer
\* with its arguments swapped.
C13_NoDuplicates ==
    version = "strategies" =>
        /\ \A a, b \in 1..Len(allSolutions) :
              a # b => ~SameSolution(allSolutions[a].solution, allSolutions[b].solution)
        /\ Returned /\ result.kind = "solved" => result.solutions = allSolutions
        /\ pc = "conclude" =>
              \A other \in Compared :
                  /\ solutionsEqual(solution, other) = solutionsEqual(other, solution)
                  /\ solutionsEqual(solution, other) = SameSolution(solution, other)

\* all four strategies ran and two of their solutions were dropped as equal
\* to an entry of the list
C13_Witness ==
    /\ version = "strategies"
    /\ Returned
    /\ result.kind = "solved"
    /\ protectedCount > 0
    /\ Len(result.solutions) = 2

\* a strategy hands its solution to solve: the step that leaves "conclude"
StrategyEnds == version = "strategies" /\ pc = "conclude" /\ pc' # "conclude"

\* C14: the primary solution is the solution of the first strategy, in the
\* order the strategies run, that placed an instance: when a strategy ends,
\* its solution becomes the primary solution exactly if it placed something
\* and no earlier strategy did, and the primary solution is not touched
\* otherwise; solve returns the primary solution, or the empty solution when
\* no strategy placed anything.
C14_PrimaryIsFirstFound ==
    /\ [][StrategyEnds =>
             primarySolution' =
                 (IF primarySolution.isNull /\ Len(solution) > 0
                  THEN Found(solution) ELSE primarySolution)]_vars
    /\ [][(version = "strategies" /\ ~StrategyEnds /\ pc # "start")
             => primarySolution' = primarySolution]_vars
    /\ []((version = "strategies" /\ Returned /\ result.kind = "solved") =>
             /\ result.solution = primarySolution.sol
             /\ primarySolution.isNull => result.solution = <<>>
             /\ ~primarySolution.isNull => Len(result.solution) > 0)

\* two strategies found different solutions and the first one is returned
C14_Witness ==
    /\ version = "strategies"
    /\ Returned
    /\ result.kind = "solved"
    /\ Len(result.solutions) >= 2
    /\ result.solution = result.solutions[1].solution
    /\ result.solutions[1].id = "best-fit"
    /\ Len(result.solution) > 0

\* C15: no step of a solve call changes the grid the caller passed, its
\* size, or the list of instances the caller passed (order, shapes, flags);
\* the list a search works on is a separate value.
C15_InputsUnchanged ==
    [][/\ gridState' = gridState
       /\ gridSize' = gridSize
       /\ selectedPieces' = selectedPieces]_vars

\* a strategy has searched a list in another order than the caller's list,
\* and solve has returned
C15_Witness ==
    /\ version = "strategies"
    /\ Returned
    /\ result.kind = "solved"
    /\ pieces # selectedPieces
    /\ Len(pieces) = Len(selectedPieces)
    /\ occupiedCells # {}

\* the filled cells of a mask
Filled(mask) ==
    {rc \in (1..Len(mask)) \X (1..Len(mask[1])) : mask[rc[1]][rc[2]] = 1}

\* C16: the fourth rotation of a rectangular mask is the mask itself: same
\* number of rows and of columns, same filled cells.
C16_FourRotations ==
    Len(rotations) = 5 =>
        /\ rotations[5] = rotations[1]
        /\ Len(rotations[5]) = Len(rotations[1])
        /\ Len(rotations[5][1]) = Len(rotations[1][1])
        /\ Filled(rotations[5]) = Filled(rotations[1])

\* four rotations of a mask that is not square and equals none of its
\* other rotations
C16_Witness ==
    /\ Len(rotations) = 5
    /\ Len(rotations[1]) # Len(rotations[1][1])
    /\ rotations[3] # rotations[1]
    /\ Filled(rotations[1]) # {}

\* C17: isCellPowered answers true only for a coordinate inside the grid
\* whose cell is not Blocked, and false for every row or column outside
\* the grid.
C17_PoweredOnlyInside ==
    queried.kind = "cell" =>
        /\ queried.powered =>
              /\ InGrid(<<queried.row, queried.col>>, gridSize)
              /\ CellStateAt(<<queried.row, queried.col>>) # "blocked"
        /\ ~InGrid(<<queried.row, queried.col>>, gridSize) => ~queried.powered

RECURSIVE Factorial(_)
Factorial(n) == IF n <= 1 THEN 1 ELSE n * Factorial(n - 1)

Largest(numbers) == CHOOSE n \in numbers : \A m \in numbers : m <= n

\* the largest number of cells a pass over some ordering of the instances
\* in rest covers, starting from occupied: a pass places each instance it
\* visits on its first free candidate, and an instance visited while it
\* does not fit leaves the pass as it was
RECURSIVE BestOverOrderings(_, _)
BestOverOrderings(rest, occupied) ==
    Largest({Cardinality(occupied)} \cup
            {BestOverOrderings(rest \ {k},
                 tryPlacePieceNoPriority(selectedPieces[k], occupied).occupied) :
                 k \in {j \in rest :
                     ~tryPlacePieceNoPriority(selectedPieces[j], occupied).isNull}})

\* C18: in maximize mode with at most OrderingLimit (10) pieces, the passes
\* tried are all the permutations of the list, and the solution returned
\* covers as many cells as the best pass over any ordering.
C18_BestOfAllOrderings ==
    (/\ version = "permute"
     /\ ~requireAll
     /\ Returned
     /\ result.kind = "solved"
     /\ Len(selectedPieces) <= OrderingLimit) =>
        /\ permIdx = Factorial(Len(selectedPieces))
        /\ Cardinality(UNION {CellsOf(result.solution[k]) :
                                 k \in 1..Len(result.solution)})
              = BestOverOrderings(1..Len(selectedPieces), {})

\* the solve that has a search-size limit (solver.js:281-407; it has no
\* mandatory / optional partition), called with a list within the limit
NoMandatoryPath ==
    /\ version = "priority"
    /\ Len(selectedPieces) <= MAX_PIECES_FOR_BACKTRACK

\* C19: on the no-mandatory path with at most 8 instances, the first thing
\* solve starts is the strict search; a complete solution of the strict
\* search is the solution of the call; the skip-allowed search starts only
\* in a step that takes null from the strict search; the greedy pass starts
\* only in a step that takes null from the skip-allowed search; so a
\* solution with an unplaced instance comes from the skip-allowed search or
\* from the greedy pass, never from the strict search.
C19_StrictThenSkipThenGreedy ==
    /\ [][(NoMandatoryPath /\ InputAccepted /\ pc' # "start")
             => (mode' = "strict" /\ pc' = "phase1")]_vars
    /\ [][(NoMandatoryPath /\ mode = "strict" /\ SearchReturned /\ ~retval.isNull)
             => (solution' = retval.sol /\ pc' = "stats")]_vars
    /\ [][(NoMandatoryPath /\ mode' = "skip" /\ mode # "skip")
             => (mode = "strict" /\ SearchReturned /\ retval.isNull)]_vars
    /\ [][(NoMandatoryPath /\ pc' = "phase3" /\ pc # "phase3")
             => (mode = "skip" /\ SearchReturned /\ retval.isNull)]_vars
    /\ [][(NoMandatoryPath /\ pc' = "stats" /\ pc # "stats"
              /\ Len(solution') < Len(selectedPieces))
             => pc \in {"phase2", "phase3"}]_vars
    /\ [](NoMandatoryPath => pc # "greedyAll")

\* the strict search failed and the skip-allowed search that followed it
\* gave the solution of the call, with an instance left unplaced
C19_Witness ==
    /\ NoMandatoryPath
    /\ Returned
    /\ result.kind = "solved"
    /\ Len(result.solution) >= 1
    /\ Len(result.solution) < Len(selectedPieces)

\* solve called with more instances than the search-size limit
OverSearchLimit ==
    version = "priority" /\ Len(selectedPieces) > MAX_PIECES_FOR_BACKTRACK

\* the cells of an instance in rotation rot (0..3) at origin (row, col)
CandidateCells(piece, cand) ==
    Range(getOccupiedCells(getAllRotations(piece.shape)[cand[1] + 1], cand[2], cand[3]))

\* the feasible candidates <<rotation, row, col>> of an instance on the
\* cells still free
Candidates(piece, occupied) ==
    {cand \in (0..3) \X (0..(gridSize - 1)) \X (0..(gridSize - 1)) :
        \A rc \in CandidateCells(piece, cand) :
            /\ InGrid(rc, gridSize)
            /\ CellStateAt(rc) # "blocked"
            /\ rc \notin occupied}

ProtectedCoverage(piece, cand) ==
    Cardinality({rc \in CandidateCells(piece, cand) : CellStateAt(rc) = "protected"})

\* a comes before b: more Protected cells, then the smaller rotation, then
\* the smaller row, then the smaller column
ComesBefore(piece, a, b) ==
    \/ ProtectedCoverage(piece, a) > ProtectedCoverage(piece, b)
    \/ /\ ProtectedCoverage(piece, a) = ProtectedCoverage(piece, b)
       /\ \/ a[1] < b[1]
          \/ a[1] = b[1] /\ a[2] < b[2]
          \/ a[1] = b[1] /\ a[2] = b[2] /\ a[3] < b[3]

FirstCandidate(piece, occupied) ==
    CHOOSE a \in Candidates(piece, occupied) :
        \A b \in Candidates(piece, occupied) \ {a} : ComesBefore(piece, a, b)

\* one visit of each instance of list in order: the first candidate if
\* there is one, nothing otherwise
RECURSIVE OnePass(_, _)
OnePass(list, occupied) ==
    IF list = <<>> THEN <<>>
    ELSE IF Candidates(list[1], occupied) = {}
         THEN OnePass(Tail(list), occupied)
         ELSE <<[pieceId |-> list[1].id,
                 at      |-> FirstCandidate(list[1], occupied),
                 cells   |-> CandidateCells(list[1], FirstCandidate(list[1], occupied))]>>
                \o OnePass(Tail(list),
                           occupied \cup CandidateCells(list[1],
                                             FirstCandidate(list[1], occupied)))

\* a solution, placement by placement: instance, rotation index, origin, cells
Summary(sol) ==
    [k \in 1..Len(sol) |->
        [pieceId |-> sol[k].pieceId,
         at      |-> <<sol[k].rotation \div 90, sol[k].row, sol[k].col>>,
         cells   |-> CellsOf(sol[k])]]

IsPrefix(short, long) ==
    Len(short) <= Len(long) /\ SubSeq(long, 1, Len(short)) = short

ScannedBefore(a, b) ==
    \/ a[1] < b[1]
    \/ a[1] = b[1] /\ a[2] < b[2]
    \/ a[1] = b[1] /\ a[2] = b[2] /\ a[3] < b[3]

PassCells(pass) == UNION {pass[k].cells : k \in 1..Len(pass)}

\* solve reaches its backtracking (some cell is not Blocked) and the
\* mandatory instances of the list cannot all be placed at once
MandatoryShortfall ==
    /\ version = "mandatory"
    /\ \E rc \in AllCells(gridSize) : CellStateAt(rc) # "blocked"
    /\ \E k \in 1..Len(selectedPieces) : selectedPieces[k].mandatory
    /\ ~JointlyPlaceable(SelectSeq(selectedPieces, LAMBDA p : p.mandatory), {})

MandatoryFullyPlaced ==
    /\ version = "mandatory"
    /\ Returned
    /\ result.kind = "solved"
    /\ ~mandatoryFailed
    /\ result.stats.totalMandatory > 0
    /\ result.stats.mandatoryPlaced = result.stats.totalMandatory

\* the cells of the mandatory placements of the returned solution
MandatoryCells ==
    UNION {CellsOf(result.solution[k]) :
              k \in {j \in 1..Len(result.solution) : InstanceOf(result.solution[j]).mandatory}}

\* C22: when the mandatory subset is fully placed, an optional instance is
\* left unplaced only if strict backtracking over the optional subset fails
\* on the cells the mandatory placements leave free, that is, only if the
\* optional instances cannot all be placed there together.
C22_OptionalStrictFirst ==
    (/\ MandatoryFullyPlaced
     /\ JointlyPlaceable(SelectSeq(selectedPieces, LAMBDA p : ~p.mandatory),
                         MandatoryCells)) =>
        \A k \in 1..Len(selectedPieces) : Placed(result.solution, selectedPieces[k])

\* a candidate record as <<rotation index, row, column>>
CandidateOf(entry) == <<entry.rotIdx, entry.row, entry.col>>

\* entry a stands before entry b: more Protected cells, then the smaller
\* rotation index, then the smaller row, then the smaller column
EntryBefore(a, b) ==
    \/ a.protectedCount > b.protectedCount
    \/ a.protectedCount = b.protectedCount
          /\ ScannedBefore(CandidateOf(a), CandidateOf(b))

\* list holds every candidate of the set cands once and nothing else, each
\* with its rotated shape and its count of Protected cells, in the order of
\* EntryBefore
ListsExactly(list, piece, cands) ==
    /\ {CandidateOf(list[k]) : k \in 1..Len(list)} = cands
    /\ Len(list) = Cardinality(cands)
    /\ \A k \in 1..Len(list) :
          /\ list[k].shape = getAllRotations(piece.shape)[list[k].rotIdx + 1]
          /\ list[k].protectedCount = ProtectedCoverage(piece, CandidateOf(list[k]))
    /\ \A i, j \in 1..Len(list) : i < j => EntryBefore(list[i], list[j])

\* list is the candidate list of piece against occupied
IsCandidateList(list, piece, occupied) ==
    ListsExactly(list, piece, Candidates(piece, occupied))

\* the searches whose loop runs over the list of getValidPlacements
SortedSearch == mode \in {"strict", "skip", "mandatory"}

\* a greedy loop is about to call tryPlacePiece
GreedyTurn ==
    /\ pc \in {"phase3", "greedyAll", "mandatoryGreedy", "optional"}
    /\ greedyIdx < Len(pieces)

\* C23: the candidate list built for an instance against the occupancy set
\* holds exactly the feasible (rotation, origin) pairs inside the grid,
\* ordered by Protected-cell count descending and, at equal count, by
\* rotation index, row and column ascending: the list a greedy loop is
\* about to take its first candidate from, and the list a search has just
\* built for the instance at its turn (when shorter than the length limit).
C23_CandidateListOrdered ==
    /\ GreedyTurn =>
          IsCandidateList(getValidPlacements(version, pieces[greedyIdx + 1], gridState,
                                             occupiedCells, gridSize),
                          pieces[greedyIdx + 1], occupiedCells)
    /\ (ctl = "loop" /\ SortedSearch /\ Top(stack).i = 0
          /\ Len(Top(stack).toTry) < SkipCandidateLimit) =>
          IsCandidateList(Top(stack).toTry, pieces[Top(stack).pieceIndex + 1],
                          occupiedCells)

\* a search has built, against a non-empty occupancy set, a list in which
\* a candidate with a Protected cell stands before one scanned earlier, and
\* two candidates have the same count
C23_Witness ==
    /\ ctl = "loop"
    /\ SortedSearch
    /\ Top(stack).i = 0
    /\ occupiedCells # {}
    /\ Len(Top(stack).toTry) \in 3..(SkipCandidateLimit - 1)
    /\ Top(stack).toTry[1].protectedCount > 0
    /\ \E j \in 2..Len(Top(stack).toTry) :
          ScannedBefore(CandidateOf(Top(stack).toTry[j]),
                        CandidateOf(Top(stack).toTry[1]))
    /\ \E i, j \in 1..Len(Top(stack).toTry) :
          i # j /\ Top(stack).toTry[i].protectedCount = Top(stack).toTry[j].protectedCount

\* the step of backtrackAllowSkip that leaves the instance of its frame
\* without a placement and calls itself for the next instance
SkipStep ==
    /\ mode = "skip"
    /\ ctl = "loop"
    /\ ~Top(stack).tail
    /\ stack' = [stack EXCEPT ![Len(stack)].tail = TRUE]

\* the instance of frame n of the running search
FramePiece(n) == pieces[stack[n].pieceIndex + 1]

\* C24: a solution returned by skip-allowed search places exactly the
\* instances that had a feasible candidate at their turn, given the
\* placements of the instances before them; the search skips an instance
\* only when its candidate list is empty or the budget has run out (and
\* then it returns no solution); an instance once skipped gets no placement
\* and its call is not resumed for as long as the search runs.
C24_SkipOnlyWithoutCandidate ==
    /\ []((mode = "skip" /\ SearchReturned /\ ~retval.isNull) =>
             \A k \in 1..Len(pieces) :
                 Placed(retval.sol, pieces[k])
                    <=> Fits(pieces[k], CellsBefore(pieces, k, retval.sol)))
    /\ [][SkipStep => (Top(stack).toTry = <<>> \/ iterationCounter.exceeded)]_vars
    /\ []((mode = "skip" /\ iterationCounter.exceeded /\ SearchReturned) =>
             retval.isNull)
    /\ [](mode = "skip" =>
             \A n \in 1..Len(stack) :
                 stack[n].tail =>
                     \A k \in 1..Len(placements) :
                         placements[k].pieceId # FramePiece(n).id)
    /\ [][mode = "skip" =>
             \A n \in 1..Len(stack) :
                 stack[n].tail => (Len(stack') < n \/ stack'[n] = stack[n])]_vars

\* skip-allowed search returned a solution that leaves out an instance
\* without candidate and places a later one
C24_Witness ==
    /\ mode = "skip"
    /\ SearchReturned
    /\ ~retval.isNull
    /\ \E k \in 1..Len(pieces) :
          /\ ~Placed(retval.sol, pieces[k])
          /\ \E j \in (k + 1)..Len(pieces) : Placed(retval.sol, pieces[j])

\* backtrackStrict or backtrackAllowSkip is running
StrictOrSkip == mode \in {"strict", "skip"}

\* the running search has run out of budget and has not yet returned to solve
Aborting ==
    /\ StrictOrSkip
    /\ iterationCounter.exceeded
    /\ ~SearchReturned

\* C25 as the claim states it: every call of a strict or skip-allowed
\* search increments the counter, and once the budget is exceeded the
\* search commits no further candidate, makes no further recursive call,
\* has the exceeded flag set and returns null.
C25_AbortNoFurtherCall ==
    /\ [][(StrictOrSkip /\ ctl = "call") =>
             iterationCounter'.count = iterationCounter.count + 1]_vars
    /\ [][Aborting =>
             /\ Len(placements') <= Len(placements)
             /\ occupiedCells' \subseteq occupiedCells
             /\ ctl' # "call"]_vars
    /\ []((StrictOrSkip /\ iterationCounter.count > MAX_BACKTRACK_ITERATIONS) =>
             iterationCounter.exceeded)
    /\ []((StrictOrSkip /\ iterationCounter.exceeded /\ SearchReturned) =>
             retval.isNull)

\* C25, amended: the same, except that backtrackAllowSkip, after the budget
\* is exceeded, still makes its call for the next instance from every frame
\* whose candidates are used up; each such call increments the counter and
\* returns null at once.  backtrackStrict makes no further call.
C25_AbortExceptSkipCall ==
    /\ [][(StrictOrSkip /\ ctl = "call") =>
             iterationCounter'.count = iterationCounter.count + 1]_vars
    /\ [][Aborting =>
             /\ Len(placements') <= Len(placements)
             /\ occupiedCells' \subseteq occupiedCells
             /\ ctl' = "call" => SkipStep
             /\ ctl = "call" => (ctl' = "ret" /\ retval'.isNull /\ stack' = stack)]_vars
    /\ []((StrictOrSkip /\ iterationCounter.count > MAX_BACKTRACK_ITERATIONS) =>
             iterationCounter.exceeded)
    /\ []((StrictOrSkip /\ iterationCounter.exceeded /\ SearchReturned) =>
             retval.isNull)

\* the budget ran out in a search that had committed a candidate: the
\* candidate is undone and the search has returned null to solve
C25_Witness ==
    /\ StrictOrSkip
    /\ iterationCounter.exceeded
    /\ SearchReturned
    /\ retval.isNull
    /\ iterationCounter.count > MAX_BACKTRACK_ITERATIONS + 1
    /\ placements = <<>>
    /\ occupiedCells = {}

\* C26: after saveBuild(name, s) or a successful quickSave(s) on the current
\* build, with only calls that leave the current build and its saved state
\* in place since (updateCurrentState among them), quickLoad returns s and
\* s is the state of the current build; with no current build, or a new
\* unnamed build for which nothing was saved, quickLoad returns null and
\* changes nothing.
C26_QuickLoadRestoresSaved ==
    /\ []((called.op = "quickLoad" /\ saved.kind = "saved") =>
             /\ ~called.isNull
             /\ called.state = saved.state
             /\ ~currentBuild.isNull
             /\ currentBuild.state = saved.state)
    /\ [][(called'.op = "quickLoad" /\ saved.kind = "none") =>
             /\ called'.isNull
             /\ currentBuild' = currentBuild
             /\ lastSavedState' = lastSavedState
             /\ storage' = storage]_vars
    /\ [](currentBuild.isNull => saved.kind = "none")

\* quickLoad has returned the state that was saved for the current build, a
\* state other than the blank one, and the build is in the stored list
C26_Witness ==
    /\ called.op = "quickLoad"
    /\ ~called.isNull
    /\ saved.kind = "saved"
    /\ saved.state # BlankState
    /\ called.state = saved.state
    /\ \E k \in 1..Len(storage.builds) :
          storage.builds[k].id = currentBuild.id

\* backtrackStrict or backtrackMandatory is running
NoSkipSearch == mode \in {"strict", "mandatory"}

\* what the calls in progress have committed: the candidate each of them
\* placed before it called the next one
CommittedByCallers ==
    [n \in 1..Len(stack) |-> MakePlacement(FramePiece(n), stack[n].toTry[stack[n].i])]

\* the placements list and the occupancy set hold what the callers
\* committed and nothing else
AsCallersLeftIt ==
    /\ placements = CommittedByCallers
    /\ occupiedCells = UNION {CellsOf(placements[k]) : k \in 1..Len(placements)}

\* C27: a call of backtrackStrict or backtrackMandatory is entered with the
\* placements list and the occupancy set holding what its callers committed;
\* the frames of its callers do not change while it runs, and whenever it
\* returns null the list and the set hold exactly that again.  The
\* outermost call returns null with both empty, so the greedy pass after a
\* failed mandatory search starts from an empty occupancy set.
C27_NullRestoresEntryState ==
    /\ []((NoSkipSearch /\ ctl = "call") => AsCallersLeftIt)
    /\ [][NoSkipSearch =>
             \A n \in 1..(Len(stack) - 1) :
                 n <= Len(stack') => stack'[n] = stack[n]]_vars
    /\ []((NoSkipSearch /\ ctl = "ret" /\ retval.isNull) => AsCallersLeftIt)
    /\ []((NoSkipSearch /\ SearchReturned /\ retval.isNull) =>
             (placements = <<>> /\ occupiedCells = {}))
    /\ []((version = "mandatory" /\ pc = "mandatoryGreedy" /\ greedyIdx = 0) =>
             (occupiedCells = {} /\ solution = <<>>))

\* backtrackMandatory has returned null to solve for a list whose first
\* instance has candidates: it placed and removed them
C27_Witness ==
    /\ mode = "mandatory"
    /\ SearchReturned
    /\ retval.isNull
    /\ Len(pieces) >= 2
    /\ Options(pieces[1]) # {}
    /\ occupiedCells = {}

\* the single-pass greedy placement: tryPlacePiece for each instance of the
\* list in order, a placement pushed whenever there is one
RECURSIVE GreedyPass(_, _)
GreedyPass(list, occupied) ==
    IF list = <<>> THEN <<>>
    ELSE IF tryPlacePiece(list[1], occupied).isNull
         THEN GreedyPass(Tail(list), occupied)
         ELSE <<tryPlacePiece(list[1], occupied).placement>>
                \o GreedyPass(Tail(list), tryPlacePiece(list[1], occupied).occupied)

SkipPhase == version = "priority" /\ pc = "phase2"

\* the list is short enough for one call per instance and one more to stay
\* within the budget (with the limits of the source: 8 + 1 <= 50000)
WithinBudget == Len(selectedPieces) + 1 <= MAX_BACKTRACK_ITERATIONS

\* C29: the skip-allowed phase of solve starts with the counter at zero and
\* makes one call for each instance and one more; when that number is
\* within the budget, as it is for the at most 8 instances the phase is run
\* on, the budget is not exceeded, the phase returns a solution, and
\* neither the greedy pass of phase 3 nor the warning "(search limit
\* reached)" is reached.
C29_SkipPhaseWithinBudget ==
    /\ [][(version = "priority" /\ pc = "phase1" /\ pc' = "phase2") =>
             iterationCounter' = [count |-> 0, exceeded |-> FALSE]]_vars
    /\ []((SkipPhase /\ SearchReturned /\ ~iterationCounter.exceeded) =>
             iterationCounter.count = Len(selectedPieces) + 1)
    /\ []((SkipPhase /\ WithinBudget) =>
             /\ ~iterationCounter.exceeded
             /\ iterationCounter.count <= Len(selectedPieces) + 1
             /\ SearchReturned => ~retval.isNull)
    /\ []((version = "priority" /\ WithinBudget) =>
             /\ pc # "phase3"
             /\ timeoutWarning # " (search limit reached)")
    /\ []((version = "priority" /\ WithinBudget /\ Returned /\ result.kind = "solved") =>
             result.message.warning # " (search limit reached)")

\* the skip-allowed phase has returned for two instances after three
\* calls, with a placement for one of them
C29_Witness ==
    /\ SkipPhase
    /\ SearchReturned
    /\ WithinBudget
    /\ Len(selectedPieces) = 2
    /\ iterationCounter.count = 3
    /\ ~retval.isNull
    /\ Len(retval.sol) = 1

\* the multi-strategy solve has returned, by an early return or at its end
StrategiesReturned == version = "strategies" /\ Returned

\* the entries of the list whose option updateSolutionDropdown selects
PreSelected(solutions) ==
    {solutions[index] : index \in
        {k \in 1..Len(solutions) : updateSolutionDropdown(solutions).options[k].selected}}

\* C30: when the multi-strategy solve returns a non-empty list of solutions,
\* the solution dropdown pre-selects exactly one entry, the first of the
\* list, and the primary solution and its statistics (result.solution,
\* result.stats) are the solution and the statistics of that entry; when the
\* returned list is empty the primary solution is empty.
C30_PrimaryIsFirstEntry ==
    StrategiesReturned =>
        /\ Len(result.solutions) > 0 =>
              /\ PreSelected(result.solutions) = {result.solutions[1]}
              /\ result.solution = result.solutions[1].solution
              /\ result.stats = result.solutions[1].stats
        /\ Len(result.solutions) = 0 => result.solution = <<>>

\* the solve returned two entries with different solutions, and the primary
\* solution is the one of the first entry, not of the second
C30_Witness ==
    /\ StrategiesReturned
    /\ Len(result.solutions) = 2
    /\ result.solution = result.solutions[1].solution
    /\ result.solution # result.solutions[2].solution
    /\ updateSolutionDropdown(result.solutions).options[1].selected
    /\ ~updateSolutionDropdown(result.solutions).options[2].selected
Next ==
    \/ SolveRejectEmpty
    \/ SolveRejectNoPower
    \/ BtEnterExceeded
    \/ BtEnterBase
    \/ BtEnterPiece
    \/ BtLoopExceeded
    \/ BtLoopTry
    \/ BtLoopSkip
    \/ BtLoopFail
    \/ BtReturnTail
    \/ BtReturnFound
    \/ BtReturnUndo
    \/ PriorityBegin
    \/ PriorityPhase1Found
    \/ PriorityPhase1Null
    \/ PriorityPhase2Done
    \/ PriorityGreedyStep
    \/ PriorityGreedyDone
    \/ PriorityFinish
    \/ MandatoryBegin
    \/ MandatorySearchFound
    \/ MandatorySearchNull
    \/ MandatoryGreedyStep
    \/ MandatoryGreedyDone
    \/ MandatoryOptionalDone
    \/ MandatoryFinish
    \/ StrategiesBegin
    \/ StrategyStrictFound
    \/ NoPriorityStrictNull
    \/ StrategyStrictNull
    \/ StrategySkipFound
    \/ StrategySkipNull
    \/ StrategyGreedyStep
    \/ StrategyGreedyDone
    \/ StrategyConcludeNext
    \/ StrategyConcludeLast
    \/ StrategiesFinish
    \/ PermuteRejectCells
    \/ PermuteBeginBacktrack
    \/ PermuteBacktrackNull
    \/ PermuteBacktrackFound
    \/ PermuteBeginBest
    \/ PermuteTryOrdering
    \/ PermuteShufflePlace
    \/ PermuteShuffleEnd
    \/ PermuteOrderingsDone
    \/ PermuteBestReturned
    \/ PermuteFinish

Spec == Init /\ [][Next]_vars

\* the same program with the repeated call
NextTwice == Next \/ SolveAgain

SpecTwice == Init /\ [][NextTwice]_vars

====
